---- MODULE Spec2Model ----
(***************************************************************************)
(* ShelfLife+ simulator: the calculation core of the demo page, the item    *)
(* list editor and the page's scenario persistence.                        *)
(*                                                                         *)
(*   getCompatibilityStatus      Index page, aggregate badge               *)
(*   analyzeCompatibility        CompatibilityAnalysis, pairwise verdicts  *)
(*   getTransportRecommendation  CompatibilityAnalysis, transport envelope *)
(*   optimizeLoading             TruckVisualizer, display zones            *)
(*   calculateImpact             ImpactMetrics, baseline vs optimized waste*)
(*   getTotalCapacity            Index page, trucks and capacity           *)
(*   exportScenarioPDF           Index page, the PDF summary's Overview    *)
(*   send, findAnswerFromMock    ChatWidget, messages and replies          *)
(*                                                                         *)
(* Four specifications share the variables:                                *)
(*   Spec       a Load Model is given and one function is applied to it    *)
(*   SpecInput  the VegetableInput operations, the chat's sample shipment  *)
(*              and reset, from the empty Load Model                       *)
(*   SpecPage   page loads: the mount-time loader, the persist effect,     *)
(*              the share link                                             *)
(*   SpecChat   the chat widget: sends, quick suggestions, reply timers    *)
(*                                                                         *)
(* Numbers.  The code computes in IEEE doubles.  The model computes the    *)
(* same expressions exactly: waste multipliers and waste units are kept    *)
(* in hundredths (0.25 is 25), and every quotient is kept as a fraction    *)
(* [num, den] compared by cross-multiplication.  Rounding of the last      *)
(* bits of a double is therefore not represented.                          *)
(***************************************************************************)
EXTENDS Integers, Sequences, FiniteSets, TLC

VARIABLES
    vegetables,            \* the Load Model (Vegetable[]): Index state, argument of the functions
    called,                \* which function has been applied to it ("none" at first)
    compatibilityStatus,   \* result of getCompatibilityStatus
    compatibilityResults,  \* result of analyzeCompatibility
    loadZones,             \* result of optimizeLoading
    impact,                \* result of calculateImpact
    transportRec,          \* result of getTransportRecommendation
    truckPlan,             \* Truck Quantity field, getTotalCapacity() and recommendedTruckCount
    pdfSummary,            \* the Overview card of the PDF scenario summary
    meta,                  \* the Planning Parameters (Index state)
    selectedVegetable,     \* VegetableInput state: the name chosen in the select
    confirmOpen,           \* VegetableInput state: the removal dialog is open
    targetVegId,           \* VegetableInput state: the item the dialog is about (0 is null)
    nextId,                \* the next fresh item id
    activeTab,             \* Index state: the tab shown
    storage,               \* localStorage item 'shelflife:scenario' (text, or absent)
    shareParam,            \* the 's' parameter of the page URL (text, or absent)
    clipboard,             \* the share link's 's' parameter last copied (text, or absent)
    phase,                 \* where the page is in its life: mounting, loaded, ready
    origin,                \* the scenarios that were serialized into the copied link, into
                           \* the page's share parameter and into the stored item
    open,                  \* ChatWidget state: the chat window is open
    input,                 \* ChatWidget state: the text of the input field
    messages,              \* ChatWidget state: the message list
    unread,                \* ChatWidget state: the unread counter
    timers,                \* the timers set by the chat and not yet fired, in the order set
    nextUuid,              \* the next fresh message id
    suggested              \* the text quick-suggestion whose scheduled send ran last

resultVars ==
    <<called, compatibilityStatus, compatibilityResults, loadZones, impact, transportRec, truckPlan,
      pdfSummary>>

inputVars == <<selectedVegetable, confirmOpen, targetVegId, nextId>>

pageVars == <<activeTab, storage, shareParam, clipboard, phase, origin>>

chatVars == <<open, input, messages, unread, timers, nextUuid, suggested>>

vars == <<vegetables, meta, resultVars, inputVars, pageVars, chatVars>>

----------------------------------------------------------------------------
(* Bounds of the model *)

\* longest Load Model whose items all have quantity 1
MaxItems == 3

\* longest Load Model whose items have differing quantities
MaxWeightedItems == 3

\* largest quantity of one item
MaxQty == 2

\* most catalog items added to the chat's sample shipment
MaxAdded == 2

\* most item ids handed out in one session of the item list editor
MaxIds == 5

----------------------------------------------------------------------------
(* Generic helpers *)

Min2(a, b) == IF a < b THEN a ELSE b

----------------------------------------------------------------------------
(* The Vegetable type and the Load Models the functions are applied to *)

\* (ethyleneProduction, ethyleneSensitivity) of an item: a plain item, a
\* sensitive one, a producer, and one that is both (Carrots, the sample
\* Eggplant, the sample Tomato, Bananas)
EthyleneProfiles ==
    { <<"low", "medium">>, <<"medium", "high">>, <<"high", "low">>, <<"high", "high">> }

\* idealTemp ranges: 0-4 and 4-8 touch without conflict, 10-12 is apart
\* from both (Onions, Potatoes, Eggplant)
TempBands == { [min |-> 0, max |-> 4], [min |-> 4, max |-> 8], [min |-> 10, max |-> 12] }

\* the profiles and the two ranges apart of the Load Models with differing quantities
SingleRoleProfiles == EthyleneProfiles \ { <<"high", "high">> }

ApartBands == { [min |-> 0, max |-> 4], [min |-> 10, max |-> 12] }

Quantities == 1..MaxQty

\* shelfLife in days (Tomatoes)
ShelfLives == {7}

ItemName(i) == "veg" \o ToString(i)

Vegetable(i, profile, band, qty, days) ==
    [ id |-> i, name |-> ItemName(i), quantity |-> qty,
      ethyleneProduction |-> profile[1], ethyleneSensitivity |-> profile[2],
      idealTemp |-> band, shelfLife |-> days ]

\* the attribute choices of n items: per item <<profile, band, quantity, shelfLife>>
ItemChoices(n, profiles, bands, qtys, days) == [1..n -> profiles \X bands \X qtys \X days]

\* the Load Model of the chosen attributes: ids and names unique by position
LoadModel(f) ==
    [i \in DOMAIN f |-> Vegetable(i, f[i][1], f[i][2], f[i][3], f[i][4])]

----------------------------------------------------------------------------
(* The catalog, the chat's sample shipment and adding a catalog item *)

Entry(name, production, sensitivity, tmin, tmax, days) ==
    [ name |-> name, ethyleneProduction |-> production,
      ethyleneSensitivity |-> sensitivity,
      idealTemp |-> [min |-> tmin, max |-> tmax], shelfLife |-> days ]

CatalogNames ==
    { "Carrots", "Cabbage", "Broccoli", "Cauliflower", "Lettuce", "Celery",
      "Chinese cabbage", "Eggplant", "Tomatoes", "Okra", "Ampalaya", "Sitaw",
      "Patola", "Kalabasa", "Pechay", "Potatoes", "Onions", "Peppers" }

VEGETABLE_DATABASE ==
    [ name \in CatalogNames |->
        CASE name = "Carrots" -> Entry(name, "low", "medium", 0, 2, 21)
          [] name = "Cabbage" -> Entry(name, "low", "medium", 0, 2, 20)
          [] name = "Broccoli" -> Entry(name, "low", "high", 0, 2, 7)
          [] name = "Cauliflower" -> Entry(name, "low", "high", 0, 2, 10)
          [] name = "Lettuce" -> Entry(name, "low", "high", 0, 2, 10)
          [] name = "Celery" -> Entry(name, "low", "high", 0, 2, 14)
          [] name = "Chinese cabbage" -> Entry(name, "low", "medium", 0, 2, 14)
          [] name = "Eggplant" -> Entry(name, "low", "high", 10, 12, 7)
          [] name = "Tomatoes" -> Entry(name, "high", "medium", 12, 15, 7)
          [] name = "Okra" -> Entry(name, "low", "high", 7, 10, 5)
          [] name = "Ampalaya" -> Entry(name, "low", "medium", 10, 12, 5)
          [] name = "Sitaw" -> Entry(name, "low", "high", 7, 10, 5)
          [] name = "Patola" -> Entry(name, "low", "medium", 10, 12, 7)
          [] name = "Kalabasa" -> Entry(name, "low", "low", 10, 12, 30)
          [] name = "Pechay" -> Entry(name, "low", "medium", 0, 2, 7)
          [] name = "Potatoes" -> Entry(name, "low", "low", 4, 8, 60)
          [] name = "Onions" -> Entry(name, "low", "low", 0, 4, 90)
          [] name = "Peppers" -> Entry(name, "low", "medium", 7, 10, 14) ]

\* the sample preset of the chat's addSampleShipment action
SampleShipment ==
    << [ id |-> 1, name |-> "Tomato", quantity |-> 80,
         ethyleneProduction |-> "high", ethyleneSensitivity |-> "low",
         idealTemp |-> [min |-> 10, max |-> 12], shelfLife |-> 7 ],
       [ id |-> 2, name |-> "Cabbage", quantity |-> 60,
         ethyleneProduction |-> "low", ethyleneSensitivity |-> "medium",
         idealTemp |-> [min |-> 0, max |-> 4], shelfLife |-> 20 ],
       [ id |-> 3, name |-> "Eggplant", quantity |-> 40,
         ethyleneProduction |-> "medium", ethyleneSensitivity |-> "high",
         idealTemp |-> [min |-> 10, max |-> 12], shelfLife |-> 6 ] >>

\* addVegetable without the test for a name already in the list
addVegetable_unchecked(vegs, selected, id) ==
    IF selected = "" \/ selected \notin DOMAIN VEGETABLE_DATABASE
    THEN vegs
    ELSE LET vegetableData == VEGETABLE_DATABASE[selected]
         IN  Append(vegs,
                    [ id |-> id, name |-> vegetableData.name, quantity |-> 1,
                      ethyleneProduction |-> vegetableData.ethyleneProduction,
                      ethyleneSensitivity |-> vegetableData.ethyleneSensitivity,
                      idealTemp |-> vegetableData.idealTemp,
                      shelfLife |-> vegetableData.shelfLife ])

\* the Load Model addVegetable hands to onVegetablesChange when `selected` is
\* the chosen name, or the unchanged one when it returns early; id is the
\* fresh random id
addVegetable(vegs, selected, id) ==
    IF \/ selected = ""
       \/ \E i \in 1..Len(vegs) : vegs[i].name = selected
    THEN vegs
    ELSE IF selected \notin DOMAIN VEGETABLE_DATABASE
    THEN vegs
    ELSE LET vegetableData == VEGETABLE_DATABASE[selected]
         IN  Append(vegs,
                    [ id |-> id, name |-> vegetableData.name, quantity |-> 1,
                      ethyleneProduction |-> vegetableData.ethyleneProduction,
                      ethyleneSensitivity |-> vegetableData.ethyleneSensitivity,
                      idealTemp |-> vegetableData.idealTemp,
                      shelfLife |-> vegetableData.shelfLife ])

\* addVegetable for each selection in turn, the ids counting on from the
\* length of the list
RECURSIVE AddEach(_, _)
AddEach(vegs, selections) ==
    IF selections = <<>> THEN vegs
    ELSE AddEach(addVegetable(vegs, Head(selections), Len(vegs) + 1), Tail(selections))

----------------------------------------------------------------------------
(* The pairwise predicates, as the code writes them *)

\* EthyleneConflict without its second disjunct
EthyleneConflict_oneway(veg1, veg2) ==
    veg1.ethyleneProduction = "high" /\ veg2.ethyleneSensitivity = "high"

\* one item's production is high and the other's sensitivity is high
EthyleneConflict(veg1, veg2) ==
    \/ veg1.ethyleneProduction = "high" /\ veg2.ethyleneSensitivity = "high"
    \/ veg2.ethyleneProduction = "high" /\ veg1.ethyleneSensitivity = "high"

\* the ideal temperature ranges do not overlap
TempConflict(veg1, veg2) ==
    \/ veg1.idealTemp.max < veg2.idealTemp.min
    \/ veg2.idealTemp.max < veg1.idealTemp.min

----------------------------------------------------------------------------
(* Index: getCompatibilityStatus *)

\* getCompatibilityStatus testing the ethylene pair in one direction only
getCompatibilityStatus_oneway(vegs) ==
    IF Len(vegs) < 2 THEN [status |-> "neutral", text |-> "Add more vegetables"]
    ELSE IF \E i \in 1..Len(vegs) : \E j \in (i + 1)..Len(vegs) :
                vegs[i].ethyleneProduction = "high" /\ vegs[j].ethyleneSensitivity = "high"
         THEN [status |-> "incompatible", text |-> "Compatibility issues detected"]
         ELSE [status |-> "compatible", text |-> "All vegetables compatible"]

getCompatibilityStatus(vegs) ==
    IF Len(vegs) < 2 THEN [status |-> "neutral", text |-> "Add more vegetables"]
    ELSE IF \E i \in 1..Len(vegs) : \E j \in (i + 1)..Len(vegs) :
                LET veg1 == vegs[i]
                    veg2 == vegs[j]
                IN  \/ veg1.ethyleneProduction = "high" /\ veg2.ethyleneSensitivity = "high"
                    \/ veg2.ethyleneProduction = "high" /\ veg1.ethyleneSensitivity = "high"
         THEN [status |-> "incompatible", text |-> "Compatibility issues detected"]
         ELSE [status |-> "compatible", text |-> "All vegetables compatible"]

----------------------------------------------------------------------------
(* CompatibilityAnalysis: analyzeCompatibility *)

\* PairVerdict testing the temperature conflict before the ethylene conflict
PairVerdict_tempfirst(veg1, veg2) ==
    LET ethyleneConflict == EthyleneConflict(veg1, veg2)
        tempConflict == TempConflict(veg1, veg2)
        pair == veg1.name \o " + " \o veg2.name
    IN  IF tempConflict
        THEN [pair |-> pair, compatible |-> FALSE,
              reason |-> "Incompatible temperature requirements", severity |-> "medium"]
        ELSE IF ethyleneConflict
        THEN [pair |-> pair, compatible |-> FALSE,
              reason |-> "Ethylene gas will cause premature ripening", severity |-> "high"]
        ELSE [pair |-> pair, compatible |-> TRUE,
              reason |-> "Compatible for transport", severity |-> "low"]

\* the verdict pushed for the pair (veg1, veg2)
PairVerdict(veg1, veg2) ==
    LET ethyleneConflict == EthyleneConflict(veg1, veg2)
        tempConflict == TempConflict(veg1, veg2)
        pair == veg1.name \o " + " \o veg2.name
    IN  IF ethyleneConflict /\ tempConflict
        THEN [pair |-> pair, compatible |-> FALSE,
              reason |-> "Ethylene conflict + temperature mismatch", severity |-> "high"]
        ELSE IF ethyleneConflict
        THEN [pair |-> pair, compatible |-> FALSE,
              reason |-> "Ethylene gas will cause premature ripening", severity |-> "high"]
        ELSE IF tempConflict
        THEN [pair |-> pair, compatible |-> FALSE,
              reason |-> "Incompatible temperature requirements", severity |-> "medium"]
        ELSE [pair |-> pair, compatible |-> TRUE,
              reason |-> "Compatible for transport", severity |-> "low"]

\* the inner loop: j runs from its start to the end of the list
RECURSIVE InnerLoop(_, _, _)
InnerLoop(vegs, i, j) ==
    IF j > Len(vegs) THEN <<>>
    ELSE <<PairVerdict(vegs[i], vegs[j])>> \o InnerLoop(vegs, i, j + 1)

\* the outer loop: i runs from its start to the end of the list
RECURSIVE OuterLoop(_, _)
OuterLoop(vegs, i) ==
    IF i > Len(vegs) THEN <<>>
    ELSE InnerLoop(vegs, i, i + 1) \o OuterLoop(vegs, i + 1)

\* analyzeCompatibility whose inner loop starts at j = i
RECURSIVE OuterLoop_self(_, _)
OuterLoop_self(vegs, i) ==
    IF i > Len(vegs) THEN <<>>
    ELSE InnerLoop(vegs, i, i) \o OuterLoop_self(vegs, i + 1)

analyzeCompatibility_self(vegs) == OuterLoop_self(vegs, 1)

analyzeCompatibility(vegs) == OuterLoop(vegs, 1)

----------------------------------------------------------------------------
(* TruckVisualizer: optimizeLoading *)

\* the key of an item's temperature group
TempKey(veg) == ToString(veg.idealTemp.min) \o "-" \o ToString(veg.idealTemp.max)

\* the reduce over the items: the groups as Object.entries lists them, in
\* the order their keys were first inserted, each [key, items]
RECURSIVE TemperatureGroups(_, _)
TemperatureGroups(vegs, groups) ==
    IF vegs = <<>> THEN groups
    ELSE LET veg == Head(vegs)
             tempKey == TempKey(veg)
             known == {g \in 1..Len(groups) : groups[g].key = tempKey}
         IN  IF known = {}
             THEN TemperatureGroups(Tail(vegs),
                      Append(groups, [key |-> tempKey, items |-> <<veg>>]))
             ELSE LET g == CHOOSE k \in known : TRUE
                  IN  TemperatureGroups(Tail(vegs),
                          [groups EXCEPT ![g].items = Append(@, veg)])

IsHighProducer(v) == v.ethyleneProduction = "high"

IsHighSensitive(v) == v.ethyleneSensitivity = "high"

IsOther(v) == v.ethyleneProduction # "high" /\ v.ethyleneSensitivity # "high"

\* one zone; index is zoneIndex at the push
Zone(index, members, tempRange, x, y, color) ==
    [ id |-> "zone-" \o ToString(index), vegetables |-> members,
      temperature |-> tempRange \o "°C",
      position |-> [x |-> x, y |-> y, width |-> 180, height |-> 100],
      color |-> color ]

\* the zones one temperature group pushes onto the zones built so far
\* (zoneIndex and zones.length advance together, one per push)
GroupZones(zones, tempRange, veggies) ==
    LET highEthyleneProducers == SelectSeq(veggies, IsHighProducer)
        ethyleneSensitive == SelectSeq(veggies, IsHighSensitive)
        others == SelectSeq(veggies, IsOther)
        n == Len(zones)
    IN  IF Len(highEthyleneProducers) > 0 /\ Len(ethyleneSensitive) > 0
        THEN LET z1 == Append(zones,
                        Zone(n, highEthyleneProducers, tempRange, 10, 10 + n * 120,
                             "bg-warning-orange/20 border-warning-orange/40"))
                 z2 == Append(z1,
                        Zone(n + 1, ethyleneSensitive, tempRange, 210,
                             10 + Len(z1) * 120,
                             "bg-fresh-green-light/40 border-fresh-green/40"))
             IN  IF Len(others) > 0
                 THEN Append(z2,
                        Zone(n + 2, others, tempRange, 410, 10 + Len(z2) * 120,
                             "bg-secondary/60 border-border"))
                 ELSE z2
        ELSE Append(zones,
                Zone(n, veggies, tempRange, 10 + (n % 3) * 200, 10 + (n \div 3) * 120,
                     "bg-fresh-green-light/40 border-fresh-green/40"))

\* Object.entries(temperatureGroups).forEach
RECURSIVE ForEachGroup(_, _)
ForEachGroup(groups, zones) ==
    IF groups = <<>> THEN zones
    ELSE ForEachGroup(Tail(groups),
                      GroupZones(zones, Head(groups).key, Head(groups).items))

optimizeLoading(vegs) ==
    IF Len(vegs) = 0 THEN <<>>
    ELSE ForEachGroup(TemperatureGroups(vegs, <<>>), <<>>)

----------------------------------------------------------------------------
(* Exact fractions for the quotients of calculateImpact *)

RECURSIVE GCD(_, _)
GCD(a, b) == IF b = 0 THEN a ELSE GCD(b, a % b)

Abs(n) == IF n < 0 THEN -n ELSE n

\* the fraction n/d (d positive) in lowest terms
Frac(n, d) ==
    LET g == GCD(Abs(n), d)
    IN  [num |-> n \div g, den |-> d \div g]

FracEq(a, b) == a.num * b.den = b.num * a.den

FracLeq(a, b) == a.num * b.den <= b.num * a.den

FracSub(a, b) == Frac(a.num * b.den - b.num * a.den, a.den * b.den)

FracMax(a, b) == IF FracLeq(a, b) THEN b ELSE a

----------------------------------------------------------------------------
(* ImpactMetrics: calculateImpact *)

\* the unit prices the function is applied with (100 is what the page passes)
UnitPrices == {0, 100}

\* hasEthyleneIssues without the other.id !== veg.id test
hasEthyleneIssues_self(vegs, veg) ==
    \E k \in 1..Len(vegs) : EthyleneConflict(veg, vegs[k])

hasEthyleneIssues(vegs, veg) ==
    \E k \in 1..Len(vegs) :
        vegs[k].id # veg.id /\ EthyleneConflict(veg, vegs[k])

hasTemperatureIssues(vegs, veg) ==
    \E k \in 1..Len(vegs) :
        vegs[k].id # veg.id /\ TempConflict(veg, vegs[k])

\* wasteMultiplier of one item in hundredths, after the cap at 0.70
WasteMultiplier(vegs, veg) ==
    LET base == 25
        withEthylene == IF hasEthyleneIssues(vegs, veg) THEN base + 20 ELSE base
        withTemperature ==
            IF hasTemperatureIssues(vegs, veg) THEN withEthylene + 15 ELSE withEthylene
    IN  Min2(withTemperature, 70)

\* baselineWaste in hundredths of a unit: the reduce over items k..end
RECURSIVE BaselineWaste(_, _)
BaselineWaste(vegs, k) ==
    IF k > Len(vegs) THEN 0
    ELSE vegs[k].quantity * WasteMultiplier(vegs, vegs[k]) + BaselineWaste(vegs, k + 1)

\* optimizedWaste with a base waste of 0.30 instead of 0.10
RECURSIVE OptimizedWaste_thirty(_, _)
OptimizedWaste_thirty(vegs, k) ==
    IF k > Len(vegs) THEN 0
    ELSE vegs[k].quantity * 30 + OptimizedWaste_thirty(vegs, k + 1)

\* optimizedWaste in hundredths of a unit
RECURSIVE OptimizedWaste(_, _)
OptimizedWaste(vegs, k) ==
    IF k > Len(vegs) THEN 0
    ELSE vegs[k].quantity * 10 + OptimizedWaste(vegs, k + 1)

RECURSIVE SumQuantity(_, _)
SumQuantity(vegs, k) ==
    IF k > Len(vegs) THEN 0 ELSE vegs[k].quantity + SumQuantity(vegs, k + 1)

RECURSIVE SumShelfLife(_, _)
SumShelfLife(vegs, k) ==
    IF k > Len(vegs) THEN 0 ELSE vegs[k].shelfLife + SumShelfLife(vegs, k + 1)

Zero == Frac(0, 1)

\* the withoutShelfLife part of the result
WithoutShelfLife(baselineWaste, totalQuantity, shelfSum, count, baselineLoss) ==
    [ wastePercentage |->
          IF totalQuantity > 0 THEN Frac(baselineWaste, totalQuantity) ELSE Zero,
      shelfLifeDays |-> FracMax(Frac(1, 1), Frac(7 * shelfSum, 10 * count)),
      estimatedLoss |-> baselineLoss ]

\* the withShelfLife part of the result
WithShelfLife(optimizedWaste, totalQuantity, shelfSum, count, optimizedLoss) ==
    [ wastePercentage |->
          IF totalQuantity > 0 THEN Frac(optimizedWaste, totalQuantity) ELSE Zero,
      shelfLifeDays |-> Frac(12 * shelfSum, 10 * count),
      estimatedLoss |-> optimizedLoss ]

\* the savings part with the waste reduction taken against the optimized waste
\* alone and the cost savings reported as the baseline loss
Savings_unsubtracted(baselineWaste, optimizedWaste, totalQuantity, shelfSum, count, baselineLoss, optimizedLoss) ==
    [ wasteReduction |->
          IF totalQuantity > 0 THEN Frac(baselineWaste, totalQuantity) ELSE Zero,
      shelfLifeExtension |->
          FracSub(Frac(12 * shelfSum, 10 * count), Frac(7 * shelfSum, 10 * count)),
      costSavings |-> baselineLoss ]

\* the savings part of the result
Savings(baselineWaste, optimizedWaste, totalQuantity, shelfSum, count, baselineLoss, optimizedLoss) ==
    [ wasteReduction |->
          IF totalQuantity > 0
          THEN Frac(baselineWaste - optimizedWaste, totalQuantity) ELSE Zero,
      shelfLifeExtension |->
          FracSub(Frac(12 * shelfSum, 10 * count), Frac(7 * shelfSum, 10 * count)),
      costSavings |-> FracSub(baselineLoss, optimizedLoss) ]

calculateImpact(vegs, unitCost) ==
    IF Len(vegs) = 0
    THEN [ withoutShelfLife |->
               [wastePercentage |-> Zero, shelfLifeDays |-> Zero, estimatedLoss |-> Zero],
           withShelfLife |->
               [wastePercentage |-> Zero, shelfLifeDays |-> Zero, estimatedLoss |-> Zero],
           savings |->
               [wasteReduction |-> Zero, shelfLifeExtension |-> Zero, costSavings |-> Zero] ]
    ELSE
    LET baselineWaste == BaselineWaste(vegs, 1)
        optimizedWaste == OptimizedWaste(vegs, 1)
        totalQuantity == SumQuantity(vegs, 1)
        \* avgShelfLife is shelfSum / count; the parts multiply it by 0.7 and 1.2
        shelfSum == SumShelfLife(vegs, 1)
        count == Len(vegs)
        \* a loss is waste units (hundredths) times the unit cost
        baselineLoss == Frac(baselineWaste * unitCost, 100)
        optimizedLoss == Frac(optimizedWaste * unitCost, 100)
    IN  [ withoutShelfLife |->
              WithoutShelfLife(baselineWaste, totalQuantity, shelfSum, count, baselineLoss),
          withShelfLife |->
              WithShelfLife(optimizedWaste, totalQuantity, shelfSum, count, optimizedLoss),
          savings |->
              Savings(baselineWaste, optimizedWaste, totalQuantity, shelfSum, count,
                      baselineLoss, optimizedLoss) ]

----------------------------------------------------------------------------
(* getTransportRecommendation (CompatibilityAnalysis) *)

Max2(a, b) == IF a > b THEN a ELSE b

\* Math.max(...values) and Math.min(...values) of a non-empty list
RECURSIVE MathMax(_)
MathMax(values) ==
    IF Len(values) = 1 THEN values[1] ELSE Max2(values[1], MathMax(Tail(values)))

RECURSIVE MathMin(_)
MathMin(values) ==
    IF Len(values) = 1 THEN values[1] ELSE Min2(values[1], MathMin(Tail(values)))

\* names.join(', ')
RECURSIVE Join(_)
Join(names) ==
    IF names = <<>> THEN ""
    ELSE IF Len(names) = 1 THEN names[1]
    ELSE names[1] \o ", " \o Join(Tail(names))

Names(vegs) == [i \in 1..Len(vegs) |-> vegs[i].name]

\* the recommendation of an empty Load Model
EmptyRecommendation_refrigerated ==
    [ type |-> "refrigerated", temperature |-> [min |-> 0, max |-> 4],
      humidity |-> "85-90%", ventilation |-> TRUE, separation |-> <<>> ]

EmptyRecommendation ==
    [ type |-> "ventilated", temperature |-> [min |-> 10, max |-> 15],
      humidity |-> "85-90%", ventilation |-> TRUE, separation |-> <<>> ]

\* the temperature field, from the largest minimum and the smallest maximum
Temperature(minTemp, maxTemp) ==
    [ min |-> Max2(0, minTemp), max |-> IF maxTemp > minTemp THEN maxTemp ELSE minTemp + 2 ]

\* the separation field
Separation_sensitiveOnly(vegs) ==
    LET highEthyleneSensitive == SelectSeq(vegs, IsHighSensitive)
    IN  IF Len(highEthyleneSensitive) > 0
        THEN << "Separate: " \o Join(Names(highEthyleneSensitive)),
                "From: " \o Join(Names(highEthyleneSensitive)) >>
        ELSE <<>>

Separation(vegs) ==
    LET highEthyleneProducers == SelectSeq(vegs, IsHighProducer)
        highEthyleneSensitive == SelectSeq(vegs, IsHighSensitive)
        needsSeparation == Len(highEthyleneProducers) > 0 /\ Len(highEthyleneSensitive) > 0
    IN  IF needsSeparation
        THEN << "Separate: " \o Join(Names(highEthyleneProducers)),
                "From: " \o Join(Names(highEthyleneSensitive)) >>
        ELSE <<>>

getTransportRecommendation(vegs) ==
    IF Len(vegs) = 0 THEN EmptyRecommendation
    ELSE LET minTemp == MathMax([i \in 1..Len(vegs) |-> vegs[i].idealTemp.min])
             maxTemp == MathMin([i \in 1..Len(vegs) |-> vegs[i].idealTemp.max])
         IN  [ type |-> IF minTemp <= 4 THEN "refrigerated" ELSE "controlled_atmosphere",
               temperature |-> Temperature(minTemp, maxTemp),
               humidity |-> "85-95%",
               ventilation |-> TRUE,
               separation |-> Separation(vegs) ]

----------------------------------------------------------------------------
(* The Planning Parameters, truck quantity and capacity (Index page) *)

TruckSizes == {"small", "medium", "large"}

\* the initial Planning Parameters
DefaultMeta ==
    [ truckType |-> "refrigerated", truckSize |-> "medium", truckQuantity |-> 1,
      bestTravelTime |-> "early_morning", autoTruckQuantity |-> TRUE,
      routeDurationHours |-> 3, ambientDeltaC |-> 4 ]

capacityBySize == [size \in TruckSizes |->
    CASE size = "small" -> 100 [] size = "medium" -> 200 [] size = "large" -> 400]

\* Math.ceil(a / b) of a whole a >= 0 and a whole b > 0
CeilDiv(a, b) == (a + b - 1) \div b

getTotalQuantity(vegs) == SumQuantity(vegs, 1)

\* the trucks the capacity is computed for
TrucksUsed_unfloored(vegs, m) ==
    IF m.autoTruckQuantity
    THEN CeilDiv(getTotalQuantity(vegs), capacityBySize[m.truckSize])
    ELSE Max2(1, m.truckQuantity)

TrucksUsed(vegs, m) ==
    IF m.autoTruckQuantity
    THEN Max2(1, CeilDiv(getTotalQuantity(vegs), capacityBySize[m.truckSize]))
    ELSE Max2(1, m.truckQuantity)

getTotalCapacity(vegs, m) == capacityBySize[m.truckSize] * TrucksUsed(vegs, m)

recommendedTruckCount(vegs, m) ==
    Max2(1, CeilDiv(getTotalQuantity(vegs), capacityBySize[m.truckSize]))

\* Math.round of 100 times the quotient: the nearest integer, halves upward
utilization(vegs, m) ==
    LET num == getTotalQuantity(vegs) * 100
        den == Max2(1, getTotalCapacity(vegs, m))
    IN  (2 * num + den) \div (2 * den)

\* the value shown in the Truck Quantity field
TruckQuantityField(vegs, m) ==
    IF m.autoTruckQuantity
    THEN Max2(1, CeilDiv(getTotalQuantity(vegs), capacityBySize[m.truckSize]))
    ELSE m.truckQuantity

----------------------------------------------------------------------------
(* JSON texts and base64 (Index page: persistence and sharing)             *)
(*                                                                         *)
(* A JSON value is kept as a tagged tree, a text as what it is the text    *)
(* of: the JSON text of a value, the base64 encoding of a text, the empty  *)
(* text, or a text that is neither JSON nor base64.                        *)

\* no value: null, or a parameter or stored item that does not exist
Absent == [kind |-> "absent"]

JNull == [t |-> "null"]
JNumber(n) == [t |-> "number", n |-> n]
JString(s) == [t |-> "string", s |-> s]
JBoolean(b) == [t |-> "boolean", b |-> b]
JArray(items) == [t |-> "array", items |-> items]
JObject(fields) == [t |-> "object", fields |-> fields]

\* the JSON tree JSON.stringify writes for an item of the Load Model
VegetableToJson(v) ==
    JObject([ id |-> JString(v.id),
              name |-> JString(v.name),
              quantity |-> JNumber(v.quantity),
              ethyleneProduction |-> JString(v.ethyleneProduction),
              ethyleneSensitivity |-> JString(v.ethyleneSensitivity),
              idealTemp |-> JObject([ min |-> JNumber(v.idealTemp.min),
                                      max |-> JNumber(v.idealTemp.max) ]),
              shelfLife |-> JNumber(v.shelfLife) ])

VegetablesToJson(vegs) == JArray([i \in 1..Len(vegs) |-> VegetableToJson(vegs[i])])

\* the JSON tree JSON.stringify writes for the Planning Parameters
MetaToJson(m) ==
    JObject([ truckType |-> JString(m.truckType),
              truckSize |-> JString(m.truckSize),
              truckQuantity |-> JNumber(m.truckQuantity),
              bestTravelTime |-> JString(m.bestTravelTime),
              autoTruckQuantity |-> JBoolean(m.autoTruckQuantity),
              routeDurationHours |-> JNumber(m.routeDurationHours),
              ambientDeltaC |-> JNumber(m.ambientDeltaC) ])

JsonText(value) == [kind |-> "json", value |-> value]

\* JSON.stringify({ vegetables, meta })
Stringify_withoutMeta(vegs, m) ==
    JsonText(JObject([vegetables |-> VegetablesToJson(vegs)]))

Stringify(vegs, m) ==
    JsonText(JObject([vegetables |-> VegetablesToJson(vegs), meta |-> MetaToJson(m)]))

\* btoa(text)
Btoa(text) == [kind |-> "base64", of |-> text]

EmptyText == [kind |-> "empty"]

\* a text that is neither JSON nor base64
Garbage == [kind |-> "garbage"]

\* the value a JSON tree parses to: null is Absent, an array a sequence, an
\* object a record
RECURSIVE FromJson(_)
FromJson(j) ==
    CASE j.t = "null" -> Absent
      [] j.t = "number" -> j.n
      [] j.t = "string" -> j.s
      [] j.t = "boolean" -> j.b
      [] j.t = "array" -> [i \in DOMAIN j.items |-> FromJson(j.items[i])]
      [] j.t = "object" -> [k \in DOMAIN j.fields |-> FromJson(j.fields[k])]

\* atob(text) and JSON.parse(text): ok is FALSE when the call throws
Atob(text) ==
    IF text.kind = "base64" THEN [ok |-> TRUE, text |-> text.of]
    ELSE [ok |-> FALSE, text |-> Garbage]

JsonParse(text) ==
    IF text.kind = "json" THEN [ok |-> TRUE, json |-> text.value]
    ELSE [ok |-> FALSE, json |-> JNull]

\* the truthiness of a parsed value
Truthy(j) ==
    CASE j.t = "null" -> FALSE
      [] j.t = "number" -> j.n # 0
      [] j.t = "string" -> j.s # ""
      [] j.t = "boolean" -> j.b
      [] j.t \in {"array", "object"} -> TRUE

\* Array.isArray(decoded)
IsArray(j) == j.t = "array"

\* decoded && Array.isArray(decoded.vegetables)
HasVegetablesArray(j) ==
    /\ Truthy(j)
    /\ j.t = "object"
    /\ "vegetables" \in DOMAIN j.fields
    /\ j.fields.vegetables.t = "array"

\* { ...prev, ...value }: an object's fields over prev's, a number or boolean adds none
Spread(prev, value) ==
    CASE value.t = "object" ->
             [k \in DOMAIN prev \cup DOMAIN value.fields |->
                 IF k \in DOMAIN value.fields THEN FromJson(value.fields[k]) ELSE prev[k]]
      [] value.t \in {"number", "boolean"} -> prev

\* if (decoded.meta) setMeta((prev) => ({ ...prev, ...decoded.meta }))
MergeMeta(prev, j) ==
    IF "meta" \in DOMAIN j.fields /\ Truthy(j.fields.meta)
    THEN Spread(prev, j.fields.meta)
    ELSE prev

\* JSON.parse(atob(s)) under if (s), and JSON.parse(saved) under if (saved):
\* ok is FALSE when the text is absent or empty or a call throws
ShareDecoded(s) ==
    IF s = Absent \/ s = EmptyText THEN [ok |-> FALSE, json |-> JNull]
    ELSE IF ~Atob(s).ok THEN [ok |-> FALSE, json |-> JNull]
    ELSE JsonParse(Atob(s).text)

SavedParsed(saved) ==
    IF saved = Absent \/ saved = EmptyText THEN [ok |-> FALSE, json |-> JNull]
    ELSE JsonParse(saved)

\* the load effect with local storage read before the share parameter
mountLoader_storageFirst(s, saved, state) ==
    LET decoded == ShareDecoded(s)
        parsed == SavedParsed(saved)
    IN  IF parsed.ok /\ IsArray(parsed.json)
        THEN [state EXCEPT !.vegetables = FromJson(parsed.json)]
        ELSE IF parsed.ok /\ HasVegetablesArray(parsed.json)
        THEN [state EXCEPT !.vegetables = FromJson(parsed.json.fields.vegetables),
                           !.meta = MergeMeta(state.meta, parsed.json)]
        ELSE IF decoded.ok /\ IsArray(decoded.json)
        THEN [state EXCEPT !.vegetables = FromJson(decoded.json), !.activeTab = "analysis"]
        ELSE IF decoded.ok /\ HasVegetablesArray(decoded.json)
        THEN [state EXCEPT !.vegetables = FromJson(decoded.json.fields.vegetables),
                           !.meta = MergeMeta(state.meta, decoded.json),
                           !.activeTab = "analysis"]
        ELSE state

\* the load effect: the state [vegetables, meta, activeTab] it leaves, given
\* the share parameter s, the stored item and the state it runs in
mountLoader(s, saved, state) ==
    LET decoded == ShareDecoded(s)
        parsed == SavedParsed(saved)
    IN  IF decoded.ok /\ IsArray(decoded.json)
        THEN [state EXCEPT !.vegetables = FromJson(decoded.json), !.activeTab = "analysis"]
        ELSE IF decoded.ok /\ HasVegetablesArray(decoded.json)
        THEN [state EXCEPT !.vegetables = FromJson(decoded.json.fields.vegetables),
                           !.meta = MergeMeta(state.meta, decoded.json),
                           !.activeTab = "analysis"]
        ELSE IF parsed.ok /\ IsArray(parsed.json)
        THEN [state EXCEPT !.vegetables = FromJson(parsed.json)]
        ELSE IF parsed.ok /\ HasVegetablesArray(parsed.json)
        THEN [state EXCEPT !.vegetables = FromJson(parsed.json.fields.vegetables),
                           !.meta = MergeMeta(state.meta, parsed.json)]
        ELSE state

----------------------------------------------------------------------------
(* The state machine of Spec: a Load Model is given, then one of the       *)
(* functions is applied to it and its result recorded.                     *)

NoStatus == [status |-> "pending", text |-> ""]

NoImpact == calculateImpact(<<>>, 0)

NoRecommendation == getTransportRecommendation(<<>>)

NoPlan == [field |-> 0, trucks |-> 0, capacity |-> 0, recommended |-> 0]

\* an idealTemp range below zero, one across zero, and Onions' (0-4)
ColdBands == { [min |-> -2, max |-> -1], [min |-> -1, max |-> 2], [min |-> 0, max |-> 4] }

\* shelfLife in days down to a single day
ShortShelfLives == {1, 2, 7}

\* Truck Quantity values typed by hand
ManualTruckQuantities == {1, 3}

\* a Load Model of up to MaxItems items of quantity 1 over all the ranges, or
\* of up to MaxWeightedItems single-role items of any quantity over two ranges,
\* or the sample shipment with up to MaxAdded catalog items added to it, or
\* of up to MaxItems plain items of short shelf life in cold ranges
GivenLoadModel ==
    \/ \E n \in 0..MaxItems : \E f \in ItemChoices(n, EthyleneProfiles, TempBands, {1}, ShelfLives) :
          vegetables = LoadModel(f)
    \/ \E n \in 1..MaxWeightedItems :
          \E f \in ItemChoices(n, SingleRoleProfiles, ApartBands, Quantities, ShelfLives) :
             vegetables = LoadModel(f)
    \/ \E n \in 0..MaxAdded : \E selections \in [1..n -> CatalogNames] :
          vegetables = AddEach(SampleShipment, selections)
    \/ \E n \in 1..MaxItems :
          \E f \in ItemChoices(n, {<<"low", "medium">>}, ColdBands, {1}, ShortShelfLives) :
             vegetables = LoadModel(f)

(* The chat widget (TraceBot).  A text is a sequence of tokens: words,     *)
(* the blank " " and punctuation marks.                                    *)

\* the most message ids (crypto.randomUUID) one conversation draws
MaxChatIds == 4

\* String.prototype.trim: the text from its first to its last token that is
\* not a blank
Trim(text) ==
    LET inked == {i \in 1..Len(text) : text[i] # " "}
    IN  IF inked = {} THEN <<>>
        ELSE SubSeq(text, CHOOSE i \in inked : \A j \in inked : i <= j,
                          CHOOSE i \in inked : \A j \in inked : i >= j)

\* String.prototype.toLowerCase on the words typed here
ToLowerCase(text) ==
    [i \in 1..Len(text) |-> IF text[i] = "Impact" THEN "impact" ELSE text[i]]

\* replace(/[^\p{L}\p{N}\s]/gu, " ")
StripPunctuation(text) ==
    [i \in 1..Len(text) |-> IF text[i] \in {"?", "!"} THEN " " ELSE text[i]]

\* String.prototype.includes, on tokens
Includes(text, k) ==
    \E i \in 1..(Len(text) - Len(k) + 1) : SubSeq(text, i, i + Len(k) - 1) = k

\* canSend of a render whose input is inp
canSend(inp) == Len(Trim(inp)) > 0

\* the words of a phrase with one blank between them
Phrase(words) ==
    [i \in 1..(2 * Len(words) - 1) |-> IF i % 2 = 1 THEN words[(i + 1) \div 2] ELSE " "]

\* the scripted answers, each named by its first words
MOCK_QA ==
    << [question |-> << <<"hello">>, <<"hi">>, <<"hey">> >>,
        answer |-> <<"Hi there! I'm TraceBot">>],
       [question |-> << Phrase(<<"what", "is", "this">>), <<"explain">>, <<"about">> >>,
        answer |-> <<"This platform helps visualize">>],
       [question |-> << <<"demo">>, <<"try">>, <<"simulate">> >>,
        answer |-> <<"Click on the Simulator">>],
       [question |-> << <<"impact">>, <<"environment">>, <<"carbon">> >>,
        answer |-> <<"We calculate estimated CO2 emissions">>],
       [question |-> << <<"login">>, <<"account">>, Phrase(<<"sign", "up">>) >>,
        answer |-> <<"Currently, we're in demo phase">>],
       [question |-> << <<"goodbye">>, <<"bye">>, <<"exit">> >>,
        answer |-> <<"Goodbye!">>] >>

QUESTION_ALIASES(kw) ==
    CASE kw = <<"try">> ->
            { <<"start">>, Phrase(<<"getting", "started">>), Phrase(<<"how", "do", "i", "start">>),
              <<"begin">>, Phrase(<<"get", "started">>), Phrase(<<"how", "to", "start">>) }
      [] kw = Phrase(<<"what", "is", "this">>) ->
            { Phrase(<<"what", "does", "this", "platform", "do">>), Phrase(<<"what", "is", "shelflife">>),
              Phrase(<<"explain", "platform">>), Phrase(<<"about", "platform">>) }
      [] kw = <<"impact">> ->
            { <<"emissions">>, <<"co2">>, Phrase(<<"carbon", "footprint">>),
              Phrase(<<"environmental", "impact">>) }
      [] kw = <<"hello">> ->
            { Phrase(<<"good", "morning">>), Phrase(<<"good", "afternoon">>), Phrase(<<"good", "evening">>) }
      [] kw = <<"goodbye">> ->
            { Phrase(<<"see", "you">>), <<"later">>, Phrase(<<"close", "chat">>) }
      [] OTHER -> {}

\* some keyword of the entry or some alias of one matches: a phrase where the
\* text includes it, a word where the text has it as a word
Matched(text, item) ==
    \E i \in 1..Len(item.question) :
       \E kw \in {item.question[i]} \cup QUESTION_ALIASES(item.question[i]) : Includes(text, kw)

\* the answer of the first entry that matches, from entry k on; the
\* fallbacks and the general answer after the last entry
RECURSIVE FirstMatch(_, _)
FirstMatch(text, k) ==
    IF k <= Len(MOCK_QA)
    THEN IF Matched(text, MOCK_QA[k]) THEN MOCK_QA[k].answer ELSE FirstMatch(text, k + 1)
    ELSE IF Includes(text, <<"tomato">>) /\ Includes(text, <<"apple">>)
    THEN <<"Heads up: tomatoes produce ethylene">>
    ELSE IF Includes(text, <<"ethylene">>) THEN <<"Ethylene is a ripening gas">>
    ELSE IF \E w \in {"compatible", "together", "mix", "combine", "pair"} : Includes(text, <<w>>)
    THEN <<"I can help with compatibility">>
    ELSE <<"I can guide you through the demo">>

findAnswerFromMock(q) == FirstMatch(StripPunctuation(Trim(ToLowerCase(q))), 1)

\* runCommand: the reply, and the tab and the action it dispatches to the page
runCommand(cmd) ==
    LET c == ToLowerCase(cmd)
    IN  IF c = <<"/demo">> \/ c = <<"/start">>
        THEN [reply |-> <<"Loaded a sample demo scenario">>, tab |-> "analysis", action |-> "addSampleShipment"]
        ELSE IF c = <<"/impact">>
        THEN [reply |-> <<"Opening Impact tab">>, tab |-> "impact", action |-> ""]
        ELSE IF c = <<"/layout">>
        THEN [reply |-> <<"Opening Layout tab">>, tab |-> "layout", action |-> ""]
        ELSE IF c = <<"/reset">>
        THEN [reply |-> <<"Scenario reset">>, tab |-> "", action |-> "reset"]
        ELSE IF c = <<"/share">>
        THEN [reply |-> <<"Created a shareable link">>, tab |-> "", action |-> "share"]
        ELSE [reply |-> <<"Unknown command">>, tab |-> "", action |-> ""]

\* text.trim().startsWith("/"), over the words that begin with a slash
isCommand(text) ==
    /\ Trim(text) # <<>>
    /\ Head(Trim(text)) \in {"/demo", "/start", "/impact", "/layout", "/reset", "/share", "/help"}

\* what send computes for a user message
replyText(text) ==
    IF isCommand(text) THEN runCommand(Trim(text)).reply ELSE findAnswerFromMock(text)

\* a message of the list
Message(id, role, text, typing) == [id |-> id, role |-> role, text |-> text, typing |-> typing]

\* the reply timer's update: the message with that id takes the reply
Replace_firstTyping(m, typingId, reply) ==
    LET first == CHOOSE i \in 1..Len(m) : m[i].typing /\ \A j \in 1..(i - 1) : ~m[j].typing
    IN  IF \E i \in 1..Len(m) : m[i].typing
        THEN [m EXCEPT ![first] = [@ EXCEPT !.typing = FALSE, !.text = reply]]
        ELSE m

Replace(m, typingId, reply) ==
    [i \in 1..Len(m) |->
        IF m[i].id = typingId THEN [m[i] EXCEPT !.typing = FALSE, !.text = reply] ELSE m[i]]

\* a timer: a reply timer holds the placeholder's id, the reply and the open
\* of the render that set it; the timer of a text quick-suggestion holds the
\* input and the open of the render that set it, and the suggestion's text
Timer(kind, delay, typingId, reply, op, inp, text) ==
    [kind |-> kind, delay |-> delay, typingId |-> typingId, replyText |-> reply,
     open |-> op, input |-> inp, text |-> text]

\* ChatWidget as constructed
IdleChat ==
    /\ open = FALSE
    /\ input = <<>>
    /\ messages = <<Message(0, "assistant", <<"Hi! I'm TraceBot">>, FALSE)>>
    /\ unread = 0
    /\ timers = <<>>
    /\ nextUuid = 1
    /\ suggested = <<>>

----------------------------------------------------------------------------
\* no scenario of this page has been serialized anywhere
NoOrigin == [copied |-> Absent, link |-> Absent, storage |-> Absent]

\* no function applied yet
NoResults ==
    /\ called = "none"
    /\ compatibilityStatus = NoStatus
    /\ compatibilityResults = <<>>
    /\ loadZones = <<>>
    /\ impact = [result |-> NoImpact, unitPrice |-> 0]
    /\ transportRec = NoRecommendation
    /\ truckPlan = NoPlan
    /\ pdfSummary = [totalLoad |-> 0, utilization |-> 0, truckQuantity |-> 0,
                     truckSize |-> "", truckType |-> "", status |-> ""]

\* VegetableInput as constructed
IdleInput ==
    /\ selectedVegetable = ""
    /\ confirmOpen = FALSE
    /\ targetVegId = 0
    /\ nextId = 1

\* a page with no address parameter, nothing stored and nothing copied
IdlePage ==
    /\ activeTab = "input"
    /\ storage = Absent
    /\ shareParam = Absent
    /\ clipboard = Absent
    /\ phase = "ready"
    /\ origin = NoOrigin

Init ==
    /\ GivenLoadModel
    /\ meta = DefaultMeta
    /\ NoResults
    /\ IdleInput
    /\ IdleChat
    /\ IdlePage

\* Index renders: the aggregate badge
CallGetCompatibilityStatus ==
    /\ called = "none"
    /\ called' = "getCompatibilityStatus"
    /\ compatibilityStatus' = getCompatibilityStatus(vegetables)
    /\ UNCHANGED <<vegetables, compatibilityResults, loadZones, impact>>
    /\ UNCHANGED <<transportRec, truckPlan, meta, pdfSummary, inputVars, pageVars, chatVars>>

\* CompatibilityAnalysis renders
CallAnalyzeCompatibility ==
    /\ called = "none"
    /\ called' = "analyzeCompatibility"
    /\ compatibilityResults' = analyzeCompatibility(vegetables)
    /\ UNCHANGED <<vegetables, compatibilityStatus, loadZones, impact>>
    /\ UNCHANGED <<transportRec, truckPlan, meta, pdfSummary, inputVars, pageVars, chatVars>>

\* CompatibilityAnalysis renders
CallGetTransportRecommendation ==
    /\ called = "none"
    /\ called' = "getTransportRecommendation"
    /\ transportRec' = getTransportRecommendation(vegetables)
    /\ UNCHANGED <<vegetables, compatibilityStatus, compatibilityResults, loadZones, impact>>
    /\ UNCHANGED <<truckPlan, meta, pdfSummary, inputVars, pageVars, chatVars>>

\* TruckVisualizer renders
CallOptimizeLoading ==
    /\ called = "none"
    /\ called' = "optimizeLoading"
    /\ loadZones' = optimizeLoading(vegetables)
    /\ UNCHANGED <<vegetables, compatibilityStatus, compatibilityResults, impact>>
    /\ UNCHANGED <<transportRec, truckPlan, meta, pdfSummary, inputVars, pageVars, chatVars>>

\* ImpactMetrics renders with some unit price
CallCalculateImpact ==
    /\ called = "none"
    /\ called' = "calculateImpact"
    /\ \E unitCost \in UnitPrices :
          impact' = [result |-> calculateImpact(vegetables, unitCost), unitPrice |-> unitCost]
    /\ UNCHANGED <<vegetables, compatibilityStatus, compatibilityResults, loadZones>>
    /\ UNCHANGED <<transportRec, truckPlan, meta, pdfSummary, inputVars, pageVars, chatVars>>

\* the Planning Parameters a truck plan is computed under: a size, and either
\* the automatic quantity or one typed by hand
PlanningChoices ==
    { [DefaultMeta EXCEPT !.truckSize = size] : size \in TruckSizes }
    \cup { [DefaultMeta EXCEPT !.truckSize = size, !.autoTruckQuantity = FALSE,
                               !.truckQuantity = quantity] :
              size \in TruckSizes, quantity \in ManualTruckQuantities }

\* the Planning tab renders under some Planning Parameters
CallGetTotalCapacity ==
    /\ called = "none"
    /\ called' = "getTotalCapacity"
    /\ \E m \in PlanningChoices :
          /\ meta' = m
          /\ truckPlan' = [ field |-> TruckQuantityField(vegetables, m),
                            trucks |-> TrucksUsed(vegetables, m),
                            capacity |-> getTotalCapacity(vegetables, m),
                            recommended |-> recommendedTruckCount(vegetables, m) ]
    /\ UNCHANGED <<vegetables, compatibilityStatus, compatibilityResults, loadZones, impact>>
    /\ UNCHANGED <<transportRec, pdfSummary, inputVars, pageVars, chatVars>>

\* Download PDF under some Planning Parameters: the Overview card
ExportScenarioPDF ==
    /\ called = "none"
    /\ called' = "exportScenarioPDF"
    /\ \E m \in PlanningChoices :
          /\ meta' = m
          /\ pdfSummary' = [ totalLoad |-> getTotalQuantity(vegetables),
                             utilization |-> utilization(vegetables, m),
                             truckQuantity |-> m.truckQuantity,
                             truckSize |-> m.truckSize,
                             truckType |-> m.truckType,
                             status |-> getCompatibilityStatus(vegetables).text ]
    /\ UNCHANGED <<vegetables, compatibilityStatus, compatibilityResults, loadZones, impact>>
    /\ UNCHANGED <<transportRec, truckPlan, inputVars, pageVars, chatVars>>

Next ==
    \/ ExportScenarioPDF
    \/ CallGetCompatibilityStatus
    \/ CallAnalyzeCompatibility
    \/ CallGetTransportRecommendation
    \/ CallOptimizeLoading
    \/ CallCalculateImpact
    \/ CallGetTotalCapacity

Spec == Init /\ [][Next]_vars

----------------------------------------------------------------------------
(* The state machine of SpecInput: the item list editor (VegetableInput),  *)
(* the tab buttons, the chat's sample shipment and reset, from the empty   *)
(* Load Model.  `called` records the last operation.  Every change of the  *)
(* Load Model or the Planning Parameters is followed by the persist        *)
(* effect, which is part of the operation's action.                        *)

Tabs == {"input", "trucks", "analysis", "layout", "impact"}

\* the names the select can be set to: nothing, two catalog names, and a
\* name of the earlier catalog that the present one lacks.  (The select
\* offers the catalog names not in the list; every name is let through here
\* so that addVegetable's own tests decide.)
SelectableNames == {"", "Carrots", "Cabbage", "Bananas"}

\* updateQuantity without the test for the item's id
updateQuantity_everyItem(vegs, id, change) ==
    SelectSeq([i \in 1..Len(vegs) |->
                  [vegs[i] EXCEPT !.quantity = Max2(0, vegs[i].quantity + change)]],
              LAMBDA v : v.quantity > 0)

\* updateQuantity without the removal of emptied items
updateQuantity_unfiltered(vegs, id, change) ==
    [i \in 1..Len(vegs) |->
        IF vegs[i].id = id
        THEN [vegs[i] EXCEPT !.quantity = Max2(0, vegs[i].quantity + change)]
        ELSE vegs[i]]

\* the Load Model updateQuantity hands to onVegetablesChange
updateQuantity(vegs, id, change) ==
    SelectSeq([i \in 1..Len(vegs) |->
                  IF vegs[i].id = id
                  THEN [vegs[i] EXCEPT !.quantity = Max2(0, vegs[i].quantity + change)]
                  ELSE vegs[i]],
              LAMBDA v : v.quantity > 0)

\* the sample preset with fresh ids from `first` on
SampleWithIds(first) ==
    [i \in 1..Len(SampleShipment) |-> [SampleShipment[i] EXCEPT !.id = first + i - 1]]

\* VegetableInput is rendered on the input tab only; leaving it discards its state
InputAfterTab(tab) ==
    IF tab = "input" /\ activeTab = "input"
    THEN UNCHANGED <<selectedVegetable, confirmOpen, targetVegId>>
    ELSE selectedVegetable' = "" /\ confirmOpen' = FALSE /\ targetVegId' = 0

\* the persist effect after a render with a changed Load Model or parameters
Persist == storage' = Stringify(vegetables', meta')

\* the results of the functions are not rendered here
UnusedResults ==
    UNCHANGED <<compatibilityStatus, compatibilityResults, loadZones, impact, transportRec, truckPlan,
                pdfSummary>>

InitInput ==
    /\ vegetables = <<>>
    /\ meta = DefaultMeta
    /\ NoResults
    /\ IdleInput
    /\ IdleChat
    /\ activeTab = "input"
    /\ storage = Stringify(<<>>, DefaultMeta)
    /\ shareParam = Absent
    /\ clipboard = Absent
    /\ phase = "ready"
    /\ origin = NoOrigin

\* the select changes
SelectVegetable ==
    /\ activeTab = "input" /\ ~confirmOpen
    /\ \E name \in SelectableNames :
          /\ name # selectedVegetable
          /\ selectedVegetable' = name
    /\ called' = "select"
    /\ UNCHANGED <<vegetables, meta, confirmOpen, targetVegId, nextId, pageVars>>
    /\ UnusedResults
    /\ UNCHANGED chatVars

\* the add button: addVegetable
AddVegetable ==
    /\ activeTab = "input" /\ ~confirmOpen
    /\ nextId <= MaxIds
    /\ called' = "addVegetable"
    /\ meta' = meta
    /\ vegetables' = addVegetable(vegetables, selectedVegetable, nextId)
    /\ IF vegetables' # vegetables
       THEN selectedVegetable' = "" /\ nextId' = nextId + 1 /\ Persist
       ELSE UNCHANGED <<selectedVegetable, nextId, storage>>
    /\ UNCHANGED <<confirmOpen, targetVegId, activeTab, shareParam, clipboard, phase, origin>>
    /\ UnusedResults
    /\ UNCHANGED chatVars

\* an item's plus button: updateQuantity(id, 1); quantities stay within MaxQty
Increment ==
    /\ activeTab = "input" /\ ~confirmOpen
    /\ meta' = meta
    /\ \E i \in 1..Len(vegetables) :
          /\ vegetables[i].quantity < MaxQty
          /\ vegetables' = updateQuantity(vegetables, vegetables[i].id, 1)
    /\ called' = "increment"
    /\ Persist
    /\ UNCHANGED <<inputVars, activeTab, shareParam, clipboard, phase, origin>>
    /\ UnusedResults
    /\ UNCHANGED chatVars

\* an item's minus button: handleDecrement(id), for the items within MaxQty
HandleDecrement ==
    /\ activeTab = "input" /\ ~confirmOpen
    /\ meta' = meta
    /\ \E i \in 1..Len(vegetables) :
          LET veg == vegetables[i]
          IN  /\ veg.quantity <= MaxQty
              /\ IF veg.quantity <= 1
                 THEN /\ targetVegId' = veg.id
                      /\ confirmOpen' = TRUE
                      /\ UNCHANGED <<vegetables, storage>>
                 ELSE /\ vegetables' = updateQuantity(vegetables, veg.id, -1)
                      /\ Persist
                      /\ UNCHANGED <<targetVegId, confirmOpen>>
    /\ called' = "handleDecrement"
    /\ UNCHANGED <<selectedVegetable, nextId, activeTab, shareParam, clipboard, phase, origin>>
    /\ UnusedResults
    /\ UNCHANGED chatVars

\* the dialog's Remove button
ConfirmRemove ==
    /\ activeTab = "input" /\ confirmOpen
    /\ meta' = meta
    /\ vegetables' = IF targetVegId # 0 THEN updateQuantity(vegetables, targetVegId, -1)
                     ELSE vegetables
    /\ IF targetVegId # 0 THEN Persist ELSE UNCHANGED storage
    /\ confirmOpen' = FALSE
    /\ targetVegId' = 0
    /\ called' = "confirmRemove"
    /\ UNCHANGED <<selectedVegetable, nextId, activeTab, shareParam, clipboard, phase, origin>>
    /\ UnusedResults
    /\ UNCHANGED chatVars

\* the dialog's Cancel button, Escape: onOpenChange(false)
CancelRemove ==
    /\ activeTab = "input" /\ confirmOpen
    /\ confirmOpen' = FALSE
    /\ called' = "cancelRemove"
    /\ UNCHANGED <<vegetables, meta, selectedVegetable, targetVegId, nextId, pageVars>>
    /\ UnusedResults
    /\ UNCHANGED chatVars

\* a tab button, or the chat's navigate event
SetActiveTab ==
    /\ \E tab \in Tabs :
          /\ tab # activeTab
          /\ activeTab' = tab
          /\ InputAfterTab(tab)
    /\ called' = "setActiveTab"
    /\ UNCHANGED <<vegetables, meta, nextId, storage, shareParam, clipboard, phase, origin>>
    /\ UnusedResults
    /\ UNCHANGED chatVars

\* the chat's addSampleShipment action
AddSampleShipment ==
    /\ phase = "ready"
    /\ nextId + Len(SampleShipment) - 1 <= MaxIds
    /\ vegetables' = SampleWithIds(nextId)
    /\ nextId' = nextId + Len(SampleShipment)
    /\ meta' = [meta EXCEPT !.truckType = "refrigerated", !.truckSize = "medium",
                            !.autoTruckQuantity = TRUE]
    /\ activeTab' = "analysis"
    /\ InputAfterTab("analysis")
    /\ Persist
    /\ called' = "addSampleShipment"
    /\ UNCHANGED <<shareParam, clipboard, phase, origin>>
    /\ UnusedResults
    /\ UNCHANGED chatVars

\* the Reset button, or the chat's reset action: resetScenario, then the
\* persist effect of the render that follows
ResetScenario ==
    /\ phase = "ready"
    /\ vegetables' = <<>>
    /\ meta' = DefaultMeta
    /\ Persist
    /\ shareParam' = Absent
    /\ origin' = [origin EXCEPT !.link = Absent]
    /\ called' = "resetScenario"
    /\ UNCHANGED <<inputVars, activeTab, clipboard, phase>>
    /\ UnusedResults
    /\ UNCHANGED chatVars

NextInput ==
    \/ SelectVegetable
    \/ AddVegetable
    \/ Increment
    \/ HandleDecrement
    \/ ConfirmRemove
    \/ CancelRemove
    \/ SetActiveTab
    \/ AddSampleShipment
    \/ ResetScenario

SpecInput == InitInput /\ [][NextInput]_vars

----------------------------------------------------------------------------
(* The state machine of SpecPage: page loads.  The page is opened with     *)
(* some share parameter and some stored item; the load effect and the      *)
(* persist effect run in the order of their declaration, the state they    *)
(* set is rendered and persisted; then the scenario is edited, shared,     *)
(* reset, and the page is loaded again.                                    *)

\* the Load Models found in links and in storage
SavedLoadModels == { <<>>, addVegetable(<<>>, "Carrots", 1), SampleShipment }

\* Planning Parameters set by hand
EditedMeta ==
    [DefaultMeta EXCEPT !.truckSize = "large", !.autoTruckQuantity = FALSE,
                        !.truckQuantity = 3, !.ambientDeltaC = 0]

SavedMetas == { DefaultMeta, EditedMeta }

\* what a link or the stored item can hold as JSON: the two accepted shapes
\* (with all, some or none of the Planning Parameters) and other values
SavedTrees ==
    { VegetablesToJson(L) : L \in SavedLoadModels }
    \cup { JObject([vegetables |-> VegetablesToJson(L), meta |-> MetaToJson(m)]) :
              L \in SavedLoadModels, m \in SavedMetas }
    \cup { JObject([vegetables |-> VegetablesToJson(L)]) : L \in SavedLoadModels }
    \cup { JObject([vegetables |-> VegetablesToJson(L), meta |-> JNull]) : L \in SavedLoadModels }
    \cup { JObject([vegetables |-> VegetablesToJson(L),
                    meta |-> JObject([truckSize |-> JString("small")])]) :
              L \in SavedLoadModels }
    \cup { JNull, JNumber(5), JString("x"), JObject([foo |-> JNumber(1)]),
           JObject([vegetables |-> JNumber(5)]) }

\* the share parameter of the address the page is opened with
ShareTexts ==
    { Absent, EmptyText, Garbage, Btoa(Garbage), JsonText(JNumber(5)) }
    \cup { Btoa(JsonText(tree)) : tree \in SavedTrees }

\* the stored item the page finds
StoredTexts ==
    { Absent, EmptyText, Garbage } \cup { JsonText(tree) : tree \in SavedTrees }

Scenario(vegs, m) == [vegetables |-> vegs, meta |-> m]

\* the first render of a freshly loaded page
FirstRender ==
    /\ vegetables = <<>>
    /\ meta = DefaultMeta
    /\ activeTab = "input"
    /\ phase = "mounting"

InitPage ==
    /\ FirstRender
    /\ NoResults
    /\ IdleInput
    /\ IdleChat
    /\ shareParam \in ShareTexts
    /\ storage \in StoredTexts
    /\ clipboard = Absent
    /\ origin = NoOrigin

\* the load effect (first effect of the mount)
LoadEffect ==
    /\ phase = "mounting"
    /\ LET loaded == mountLoader(shareParam, storage,
                                 [vegetables |-> vegetables, meta |-> meta,
                                  activeTab |-> activeTab])
       IN  /\ vegetables' = loaded.vegetables
           /\ meta' = loaded.meta
           /\ activeTab' = loaded.activeTab
    /\ phase' = "loaded"
    /\ called' = "loadEffect"
    /\ UNCHANGED <<inputVars, storage, shareParam, clipboard, origin>>
    /\ UnusedResults
    /\ UNCHANGED chatVars

\* the persist effect of the mount: it writes the state of the first render
PersistEffect ==
    /\ phase = "loaded"
    /\ storage' = Stringify(<<>>, DefaultMeta)
    /\ phase' = "persisted"
    /\ called' = "persistEffect"
    /\ UNCHANGED <<vegetables, meta, inputVars, activeTab, shareParam, clipboard, origin>>
    /\ UnusedResults
    /\ UNCHANGED chatVars

\* React.StrictMode in a development build: after the mount effects have run,
\* their cleanups run and the effects run once more before anything is
\* rendered again: the load effect reads what the persist effect has just
\* written, and the persist effect writes the state of the first render again
StrictModeRemount ==
    /\ phase = "persisted"
    /\ LET loaded == mountLoader(shareParam, storage,
                                 [vegetables |-> vegetables, meta |-> meta,
                                  activeTab |-> activeTab])
       IN  /\ vegetables' = loaded.vegetables
           /\ meta' = loaded.meta
           /\ activeTab' = loaded.activeTab
    /\ storage' = Stringify(<<>>, DefaultMeta)
    /\ phase' = "remounted"
    /\ called' = "strictModeRemount"
    /\ UNCHANGED <<inputVars, shareParam, clipboard, origin>>
    /\ UnusedResults
    /\ UNCHANGED chatVars

\* the render of the state the load effect has set, and its persist effect
Rerender ==
    /\ phase \in {"persisted", "remounted"}
    /\ UNCHANGED <<vegetables, meta>>
    /\ Persist
    /\ phase' = "ready"
    /\ called' = "rerender"
    /\ UNCHANGED <<inputVars, activeTab, shareParam, clipboard, origin>>
    /\ UnusedResults
    /\ UNCHANGED chatVars

\* the Planning Parameters are edited
EditPlanningParameters ==
    /\ phase = "ready"
    /\ \E m \in SavedMetas :
          /\ m # meta
          /\ meta' = m
    /\ UNCHANGED vegetables
    /\ Persist
    /\ called' = "setMeta"
    /\ UNCHANGED <<inputVars, activeTab, shareParam, clipboard, phase, origin>>
    /\ UnusedResults
    /\ UNCHANGED chatVars

\* the Share button: shareScenario of the current render
ShareScenario ==
    /\ phase = "ready"
    /\ clipboard' = Btoa(Stringify(vegetables, meta))
    /\ origin' = [origin EXCEPT !.copied = Scenario(vegetables, meta)]
    /\ called' = "shareScenario"
    /\ UNCHANGED <<vegetables, meta, inputVars, activeTab, storage, shareParam, phase>>
    /\ UnusedResults
    /\ UNCHANGED chatVars

\* the chat command '/share': the event bridge's action handler calls the
\* shareScenario it holds.  The effect that registers the handler has no
\* dependencies, so both are those of the first render, whose Load Model is
\* empty and whose Planning Parameters are the defaults
ChatShare ==
    /\ phase = "ready"
    /\ clipboard' = Btoa(Stringify(<<>>, DefaultMeta))
    /\ origin' = [origin EXCEPT !.copied = Scenario(<<>>, DefaultMeta)]
    /\ called' = "chatShare"
    /\ UNCHANGED <<vegetables, meta, inputVars, activeTab, storage, shareParam, phase>>
    /\ UnusedResults
    /\ UNCHANGED chatVars

\* the copied link is opened in this browser: a page load with its parameter
OpenSharedLink ==
    /\ phase = "ready"
    /\ clipboard # Absent
    /\ shareParam' = clipboard
    /\ clipboard' = Absent
    /\ origin' = [copied |-> Absent, link |-> origin.copied,
                  storage |-> Scenario(vegetables, meta)]
    /\ vegetables' = <<>>
    /\ meta' = DefaultMeta
    /\ activeTab' = "input"
    /\ phase' = "mounting"
    /\ called' = "openSharedLink"
    /\ UNCHANGED <<inputVars, storage>>
    /\ UnusedResults
    /\ UNCHANGED chatVars

\* the page is loaded again, at the same address or at the one without parameters
Reload ==
    /\ phase = "ready"
    /\ \/ UNCHANGED shareParam /\ origin' = [origin EXCEPT !.storage = Scenario(vegetables, meta)]
       \/ /\ shareParam # Absent
          /\ shareParam' = Absent
          /\ origin' = [origin EXCEPT !.link = Absent, !.storage = Scenario(vegetables, meta)]
    /\ vegetables' = <<>>
    /\ meta' = DefaultMeta
    /\ activeTab' = "input"
    /\ phase' = "mounting"
    /\ called' = "reload"
    /\ UNCHANGED <<inputVars, storage, clipboard>>
    /\ UnusedResults
    /\ UNCHANGED chatVars

NextPage ==
    \/ LoadEffect
    \/ PersistEffect
    \/ StrictModeRemount
    \/ Rerender
    \/ EditPlanningParameters
    \/ AddSampleShipment
    \/ ResetScenario
    \/ ShareScenario
    \/ ChatShare
    \/ OpenSharedLink
    \/ Reload

SpecPage == InitPage /\ [][NextPage]_vars

----------------------------------------------------------------------------
(* The state machine of SpecChat: the chat widget on a loaded page.  The   *)
(* user opens and closes the window, types, sends, clicks suggestions;     *)
(* the timers that send sets fire later.  The commands sent here are the   *)
(* ones that navigate or are unknown.                                      *)

\* what is typed into the input field
InputTexts == { <<" ">>, <<" ", "Impact", "?">>, <<"/layout">> }

\* the text quick-suggestions clicked here, of the five
TextSuggestions == { Phrase(<<"what", "is", "this">>), <<"compatible">> }

InitChat ==
    /\ vegetables = <<>>
    /\ meta = DefaultMeta
    /\ NoResults
    /\ IdleInput
    /\ IdleChat
    /\ activeTab = "input"
    /\ storage = Stringify(<<>>, DefaultMeta)
    /\ shareParam = Absent
    /\ clipboard = Absent
    /\ phase = "ready"
    /\ origin = NoOrigin

\* what no chat handler touches
ChatLeaves ==
    /\ UNCHANGED <<vegetables, meta, inputVars, storage, shareParam, clipboard, phase, origin>>
    /\ UnusedResults

WithoutTimer(i) == SubSeq(timers, 1, i - 1) \o SubSeq(timers, i + 1, Len(timers))

\* a timer is due before every timer set later with the same or a longer delay
CanFire(i) == \A j \in 1..(i - 1) : timers[j].delay > timers[i].delay

\* send, as defined by a render whose input is inp and whose open is op;
\* pending are the timers that remain set
SendOf(inp, op, pending) ==
    IF ~canSend(inp)
    THEN /\ timers' = pending
         /\ UNCHANGED <<messages, input, nextUuid, activeTab>>
    ELSE LET text == Trim(inp)
             command == runCommand(Trim(text))
         IN  /\ nextUuid + 1 <= MaxChatIds
             /\ isCommand(text) => command.action = ""
             /\ messages' = messages \o << Message(nextUuid, "user", text, FALSE),
                                            Message(nextUuid + 1, "assistant", <<"...">>, TRUE) >>
             /\ input' = <<>>
             /\ activeTab' = IF isCommand(text) /\ command.tab # "" THEN command.tab ELSE activeTab
             /\ timers' = Append(pending,
                                 Timer("reply", IF isCommand(text) THEN 250 ELSE 600,
                                       nextUuid + 1, replyText(text), op, <<>>, <<>>))
             /\ nextUuid' = nextUuid + 2

\* the launcher while the window is closed, or the page's tracebot:open:
\* the window opens and its effect clears the counter
OpenChat ==
    /\ ~open
    /\ open' = TRUE
    /\ unread' = 0
    /\ called' = "open"
    /\ UNCHANGED <<input, messages, timers, nextUuid, suggested, activeTab>>
    /\ ChatLeaves

\* the launcher while the window is open, the close button, Escape
CloseChat ==
    /\ open
    /\ open' = FALSE
    /\ called' = "close"
    /\ UNCHANGED <<input, messages, unread, timers, nextUuid, suggested, activeTab>>
    /\ ChatLeaves

\* the input field changes; the field stays in the document and in the tab
\* order while the window is closed
TypeInput ==
    /\ \E t \in InputTexts :
          /\ t # input
          /\ input' = t
    /\ called' = "setInput"
    /\ UNCHANGED <<open, messages, unread, timers, nextUuid, suggested, activeTab>>
    /\ ChatLeaves

\* Enter in the input field, or the Send button: send of the current render
Send ==
    /\ SendOf(input, open, timers)
    /\ called' = "send"
    /\ UNCHANGED <<open, unread, suggested>>
    /\ ChatLeaves

\* a text quick-suggestion is clicked: setInput(s.text); setTimeout(() => send(), 0)
\* with the send of the render that is on screen
ClickTextSuggestion ==
    /\ open
    /\ \A i \in 1..Len(timers) : timers[i].kind # "send"
    /\ \E s \in TextSuggestions :
          /\ input' = s
          /\ timers' = Append(timers, Timer("send", 0, 0, <<>>, open, input, s))
    /\ called' = "textSuggestion"
    /\ UNCHANGED <<open, messages, unread, nextUuid, suggested, activeTab>>
    /\ ChatLeaves

\* the 0 ms timer of a text quick-suggestion fires
ScheduledSend ==
    /\ \E i \in 1..Len(timers) :
          /\ timers[i].kind = "send"
          /\ CanFire(i)
          /\ SendOf(timers[i].input, timers[i].open, WithoutTimer(i))
          /\ suggested' = timers[i].text
    /\ called' = "scheduledSend"
    /\ UNCHANGED <<open, unread>>
    /\ ChatLeaves

\* a reply timer fires
DeliverReply ==
    /\ \E i \in 1..Len(timers) :
          /\ timers[i].kind = "reply"
          /\ CanFire(i)
          /\ messages' = Replace(messages, timers[i].typingId, timers[i].replyText)
          /\ unread' = IF ~timers[i].open THEN unread + 1 ELSE unread
          /\ timers' = WithoutTimer(i)
    /\ called' = "reply"
    /\ UNCHANGED <<open, input, nextUuid, suggested, activeTab>>
    /\ ChatLeaves

\* the action quick-suggestion 'Show truck layout' is clicked
ClickActionSuggestion ==
    /\ open
    /\ nextUuid <= MaxChatIds
    /\ activeTab' = "layout"
    /\ messages' = Append(messages, Message(nextUuid, "assistant",
                                            <<"Done. I've updated the simulator for you.">>, FALSE))
    /\ nextUuid' = nextUuid + 1
    /\ unread' = IF ~open THEN unread + 1 ELSE unread
    /\ called' = "actionSuggestion"
    /\ UNCHANGED <<open, input, timers, suggested>>
    /\ ChatLeaves

NextChat ==
    \/ OpenChat
    \/ CloseChat
    \/ TypeInput
    \/ Send
    \/ ClickTextSuggestion
    \/ ScheduledSend
    \/ DeliverReply
    \/ ClickActionSuggestion

SpecChat == InitChat /\ [][NextChat]_vars

----------------------------------------------------------------------------
(* Properties of the Compatibility Engine *)

\* positions a, b hold an ethylene pair: a's production and b's sensitivity are high
ProducerMeetsSensitive(vegs, a, b) ==
    vegs[a].ethyleneProduction = "high" /\ vegs[b].ethyleneSensitivity = "high"

\* some two different positions hold an ethylene pair
SomeEthylenePair(vegs) ==
    \E a \in 1..Len(vegs) : \E b \in 1..Len(vegs) :
        a # b /\ ProducerMeetsSensitive(vegs, a, b)

\* the ranges of positions a and b have no common temperature
RangesApart(vegs, a, b) ==
    \/ vegs[a].idealTemp.max < vegs[b].idealTemp.min
    \/ vegs[b].idealTemp.max < vegs[a].idealTemp.min

\* the label analyzeCompatibility gives the pair of positions a, b
PairLabel(vegs, a, b) == vegs[a].name \o " + " \o vegs[b].name

\* the verdicts of a result list that carry a label
VerdictsLabelled(results, label) ==
    {k \in 1..Len(results) : results[k].pair = label}

\* C1: the aggregate status is neutral for 0 or 1 items; for 2 or more it is
\* incompatible exactly when some unordered pair has an ethylene conflict and
\* compatible otherwise, whatever the temperature ranges are.
C1_AggregateStatus ==
    called = "getCompatibilityStatus" =>
        compatibilityStatus.status =
            IF Len(vegetables) <= 1 THEN "neutral"
            ELSE IF SomeEthylenePair(vegetables) THEN "incompatible"
            ELSE "compatible"

\* C1 witness: two or more items with a temperature-only conflict and no
\* ethylene pair were judged compatible
C1_Witness ==
    /\ called = "getCompatibilityStatus"
    /\ Len(vegetables) >= 2
    /\ \E a \in 1..Len(vegetables) : \E b \in 1..Len(vegetables) :
          a # b /\ RangesApart(vegetables, a, b)
    /\ ~SomeEthylenePair(vegetables)
    /\ compatibilityStatus.status = "compatible"

\* C2: each pair's verdict follows the priority order: both conflicts or
\* ethylene alone give incompatible/high, temperature alone gives
\* incompatible/medium with the temperature reason, neither gives compatible/low.
C2_VerdictPriority ==
    called = "analyzeCompatibility" =>
        \A a \in 1..Len(vegetables) : \A b \in (a + 1)..Len(vegetables) :
            LET ethylene == \/ ProducerMeetsSensitive(vegetables, a, b)
                            \/ ProducerMeetsSensitive(vegetables, b, a)
                apart == RangesApart(vegetables, a, b)
                found == VerdictsLabelled(compatibilityResults, PairLabel(vegetables, a, b))
            IN  /\ found # {}
                /\ \A k \in found :
                      LET r == compatibilityResults[k]
                      IN  /\ ethylene => r.compatible = FALSE /\ r.severity = "high"
                          /\ (~ethylene /\ apart) =>
                                /\ r.compatible = FALSE
                                /\ r.severity = "medium"
                                /\ r.reason = "Incompatible temperature requirements"
                          /\ (~ethylene /\ ~apart) =>
                                r.compatible = TRUE /\ r.severity = "low"

\* C2 witness: one analysis holds a pair with both conflicts and a pair with
\* a temperature conflict only
C2_Witness ==
    /\ called = "analyzeCompatibility"
    /\ \E k \in 1..Len(compatibilityResults) :
          compatibilityResults[k].reason = "Ethylene conflict + temperature mismatch"
    /\ \E k \in 1..Len(compatibilityResults) :
          compatibilityResults[k].severity = "medium"

\* C3: n items give exactly n*(n-1)/2 verdicts, one for each unordered pair of
\* distinct positions and none for an item with itself; 0 or 1 items give none.
C3_AllPairsOnce ==
    called = "analyzeCompatibility" =>
        LET n == Len(vegetables)
        IN  /\ 2 * Len(compatibilityResults) = n * (n - 1)
            /\ \A a \in 1..n : \A b \in (a + 1)..n :
                  Cardinality(VerdictsLabelled(compatibilityResults,
                                               PairLabel(vegetables, a, b))) = 1
            /\ \A a \in 1..n :
                  VerdictsLabelled(compatibilityResults, PairLabel(vegetables, a, a)) = {}
            /\ n <= 1 => compatibilityResults = <<>>

\* C3 witness: three items were analysed into three verdicts
C3_Witness ==
    /\ called = "analyzeCompatibility"
    /\ Len(vegetables) = 3
    /\ Len(compatibilityResults) = 3

\* the Load Model in the opposite order
Reversed(vegs) == [i \in 1..Len(vegs) |-> vegs[Len(vegs) + 1 - i]]

\* C4: both conflict predicates are symmetric, so the compatible flag and the
\* severity of a pair do not depend on which of the two items comes first.
C4_Symmetry ==
    called = "analyzeCompatibility" =>
        LET n == Len(vegetables)
            backwards == analyzeCompatibility(Reversed(vegetables))
        IN  \A a \in 1..n : \A b \in (a + 1)..n :
                /\ EthyleneConflict(vegetables[a], vegetables[b])
                      = EthyleneConflict(vegetables[b], vegetables[a])
                /\ TempConflict(vegetables[a], vegetables[b])
                      = TempConflict(vegetables[b], vegetables[a])
                /\ \A k \in VerdictsLabelled(compatibilityResults,
                                             PairLabel(vegetables, a, b)) :
                   \A m \in VerdictsLabelled(backwards, PairLabel(vegetables, b, a)) :
                      /\ compatibilityResults[k].compatible = backwards[m].compatible
                      /\ compatibilityResults[k].severity = backwards[m].severity

\* C4 witness: an analysed pair whose first item is the sensitive one and whose
\* second is the producer, and whose later item has the colder range
C4_Witness ==
    /\ called = "analyzeCompatibility"
    /\ \E a \in 1..Len(vegetables) : \E b \in (a + 1)..Len(vegetables) :
          /\ ProducerMeetsSensitive(vegetables, b, a)
          /\ ~ProducerMeetsSensitive(vegetables, a, b)
          /\ vegetables[b].idealTemp.max < vegetables[a].idealTemp.min
          /\ \E k \in VerdictsLabelled(compatibilityResults, PairLabel(vegetables, a, b)) :
                compatibilityResults[k].severity = "high"

----------------------------------------------------------------------------
(* Properties of the Layout Heuristic *)

\* every place <<zone, member>> of a zone list
ZonePlaces(zones) ==
    UNION { {<<z, m>> : m \in 1..Len(zones[z].vegetables)} : z \in 1..Len(zones) }

\* C5: the zones partition the Load Model: every item is in exactly one place
\* of exactly one zone, and every zone member is an item of the model.
C5_ZonesPartition ==
    called = "optimizeLoading" =>
        /\ \A i \in 1..Len(vegetables) :
              Cardinality({p \in ZonePlaces(loadZones) :
                             loadZones[p[1]].vegetables[p[2]] = vegetables[i]}) = 1
        /\ \A p \in ZonePlaces(loadZones) :
              \E i \in 1..Len(vegetables) :
                 loadZones[p[1]].vegetables[p[2]] = vegetables[i]

\* the items of the Load Model in the temperature band a zone is labelled with
BandItems(vegs, zone) ==
    {i \in 1..Len(vegs) :
        ToString(vegs[i].idealTemp.min) \o "-" \o ToString(vegs[i].idealTemp.max) \o "°C"
            = zone.temperature}

\* C6: in a band holding a high producer and a high-sensitive item, no zone
\* holds a high producer together with a different item of high sensitivity.
C6_ProducersApartFromSensitive ==
    called = "optimizeLoading" =>
        \A z \in 1..Len(loadZones) :
            LET zone == loadZones[z]
                band == BandItems(vegetables, zone)
            IN  ( /\ \E i \in band : vegetables[i].ethyleneProduction = "high"
                  /\ \E i \in band : vegetables[i].ethyleneSensitivity = "high" )
                => ~ \E a \in 1..Len(zone.vegetables) : \E b \in 1..Len(zone.vegetables) :
                        /\ zone.vegetables[a].id # zone.vegetables[b].id
                        /\ zone.vegetables[a].ethyleneProduction = "high"
                        /\ zone.vegetables[b].ethyleneSensitivity = "high"

\* two placement rectangles share a point of positive area
Overlap(r, q) ==
    /\ r.x < q.x + q.width
    /\ q.x < r.x + r.width
    /\ r.y < q.y + q.height
    /\ q.y < r.y + r.height

\* C7: the placement rectangles of two distinct zones never intersect.
C7_ZonesDoNotOverlap ==
    called = "optimizeLoading" =>
        \A z \in 1..Len(loadZones) : \A w \in (z + 1)..Len(loadZones) :
            ~Overlap(loadZones[z].position, loadZones[w].position)

----------------------------------------------------------------------------
(* Properties of the Impact Estimator *)

\* position i has an ethylene conflict with another position
ConflictsByEthylene(vegs, i) ==
    \E k \in 1..Len(vegs) :
        k # i /\ (ProducerMeetsSensitive(vegs, i, k) \/ ProducerMeetsSensitive(vegs, k, i))

\* position i has a temperature range apart from another position's
ConflictsByTemperature(vegs, i) ==
    \E k \in 1..Len(vegs) : k # i /\ RangesApart(vegs, i, k)

\* the baseline multiplier of position i in hundredths, as the specification states it
StatedMultiplier(vegs, i) ==
    LET sum == 25 + (IF ConflictsByEthylene(vegs, i) THEN 20 ELSE 0)
                  + (IF ConflictsByTemperature(vegs, i) THEN 15 ELSE 0)
    IN  IF sum > 70 THEN 70 ELSE sum

\* the sum of Term(i) over the positions 1..n
RECURSIVE SumTo(_, _)
SumTo(terms, n) == IF n = 0 THEN 0 ELSE terms[n] + SumTo(terms, n - 1)

\* waste units in hundredths, as the specification states them
StatedBaselineWaste(vegs) ==
    SumTo([i \in 1..Len(vegs) |-> vegs[i].quantity * StatedMultiplier(vegs, i)], Len(vegs))

StatedOptimizedWaste(vegs) ==
    SumTo([i \in 1..Len(vegs) |-> vegs[i].quantity * 10], Len(vegs))

StatedTotalQuantity(vegs) ==
    SumTo([i \in 1..Len(vegs) |-> vegs[i].quantity], Len(vegs))

\* C8: for a non-empty Load Model the optimized waste is at most the baseline
\* waste, and the waste reduction and cost savings are never negative.
C8_OptimizedAtMostBaseline ==
    (called = "calculateImpact" /\ Len(vegetables) >= 1) =>
        LET r == impact.result
        IN  /\ FracLeq(r.withShelfLife.wastePercentage, r.withoutShelfLife.wastePercentage)
            /\ FracLeq(r.withShelfLife.estimatedLoss, r.withoutShelfLife.estimatedLoss)
            /\ FracLeq(Zero, r.savings.wasteReduction)
            /\ FracLeq(Zero, r.savings.costSavings)

\* C8 witness: an impact computed at a positive unit price for several items of
\* differing quantities, with positive cost savings
C8_Witness ==
    /\ called = "calculateImpact"
    /\ Len(vegetables) >= 2
    /\ \E i \in 1..Len(vegetables) : vegetables[i].quantity # vegetables[1].quantity
    /\ impact.unitPrice > 0
    /\ ~FracLeq(impact.result.savings.costSavings, Zero)

\* C9: each item's baseline multiplier is 0.25, plus 0.20 exactly when it has
\* an ethylene conflict with another item, plus 0.15 exactly when its range is
\* apart from another item's, capped at 0.70; baseline waste is the sum of
\* quantity times multiplier (seen in the waste percentage and the loss).
C9_BaselineMultiplier ==
    (called = "calculateImpact" /\ Len(vegetables) >= 1) =>
        LET r == impact.result
        IN  /\ FracEq(r.withoutShelfLife.wastePercentage,
                      Frac(StatedBaselineWaste(vegetables), StatedTotalQuantity(vegetables)))
            /\ \A i \in 1..Len(vegetables) :
                  WasteMultiplier(vegetables, vegetables[i]) = StatedMultiplier(vegetables, i)

\* C9 witness: an impact over items whose multipliers are 0.60 and 0.40 and
\* whose quantities differ
C9_Witness ==
    /\ called = "calculateImpact"
    /\ \E i \in 1..Len(vegetables) : \E k \in 1..Len(vegetables) :
          /\ StatedMultiplier(vegetables, i) = 60
          /\ StatedMultiplier(vegetables, k) = 40
          /\ vegetables[i].quantity # vegetables[k].quantity

----------------------------------------------------------------------------
(* Shelf life figures of the impact estimate *)

\* C11: the reported baseline shelf life is 0.7 times the mean shelfLife
\* floored at 1 day, the optimized one is 1.2 times the mean, and the reported
\* shelf-life extension is the optimized shelfLifeDays minus the baseline
\* shelfLifeDays of the same result, the floored results included.
C11_ShelfLifeExtension ==
    (called = "calculateImpact" /\ Len(vegetables) >= 1) =>
        LET r == impact.result
            shelfSum == SumTo([i \in 1..Len(vegetables) |-> vegetables[i].shelfLife], Len(vegetables))
            count == Len(vegetables)
            scaled == Frac(7 * shelfSum, 10 * count)
        IN  /\ FracEq(r.withoutShelfLife.shelfLifeDays,
                      IF FracLeq(Frac(1, 1), scaled) THEN scaled ELSE Frac(1, 1))
            /\ FracEq(r.withShelfLife.shelfLifeDays, Frac(12 * shelfSum, 10 * count))
            /\ FracEq(r.savings.shelfLifeExtension,
                      FracSub(r.withShelfLife.shelfLifeDays, r.withoutShelfLife.shelfLifeDays))

----------------------------------------------------------------------------
(* The transport recommendation *)

\* the largest idealTemp.min and the smallest idealTemp.max of a Load Model
StatedMinTemp(vegs) ==
    CHOOSE t \in {vegs[i].idealTemp.min : i \in 1..Len(vegs)} :
        \A i \in 1..Len(vegs) : vegs[i].idealTemp.min <= t

StatedMaxTemp(vegs) ==
    CHOOSE t \in {vegs[i].idealTemp.max : i \in 1..Len(vegs)} :
        \A i \in 1..Len(vegs) : vegs[i].idealTemp.max >= t

\* C12: the reported maximum temperature is maxTemp whenever maxTemp >= minTemp,
\* equality included, and minTemp + 2 only when the range is inverted.
C12_MaxOfEnvelope ==
    (called = "getTransportRecommendation" /\ Len(vegetables) >= 1) =>
        LET minTemp == StatedMinTemp(vegetables)
            maxTemp == StatedMaxTemp(vegetables)
        IN  transportRec.temperature.max =
                IF maxTemp >= minTemp THEN maxTemp ELSE minTemp + 2

\* C13: the reported minimum temperature is the largest idealTemp.min of the
\* items, whatever their ranges.
C13_MinOfEnvelope ==
    (called = "getTransportRecommendation" /\ Len(vegetables) >= 1) =>
        transportRec.temperature.min = StatedMinTemp(vegetables)

\* the names of the first n items in the given role, in load order, joined
RECURSIVE StatedNames(_, _, _)
StatedNames(vegs, n, role) ==
    IF n = 0 THEN ""
    ELSE LET before == StatedNames(vegs, n - 1, role)
             inRole == IF role = "producer"
                       THEN vegs[n].ethyleneProduction = "high"
                       ELSE vegs[n].ethyleneSensitivity = "high"
         IN  IF ~inRole THEN before
             ELSE IF before = "" THEN vegs[n].name
             ELSE before \o ", " \o vegs[n].name

\* C14: the separation list is non-empty exactly when the Load Model has a
\* high producer and a high-sensitive item; it then has two entries, the first
\* naming every high producer and the second every high-sensitive item, in
\* load order.
C14_Separation ==
    (called = "getTransportRecommendation" /\ Len(vegetables) >= 1) =>
        LET someProducer == \E i \in 1..Len(vegetables) : vegetables[i].ethyleneProduction = "high"
            someSensitive == \E i \in 1..Len(vegetables) : vegetables[i].ethyleneSensitivity = "high"
            separation == transportRec.separation
        IN  /\ (separation # <<>>) <=> (someProducer /\ someSensitive)
            /\ separation # <<>> =>
                  /\ Len(separation) = 2
                  /\ separation[1] =
                        "Separate: " \o StatedNames(vegetables, Len(vegetables), "producer")
                  /\ separation[2] =
                        "From: " \o StatedNames(vegetables, Len(vegetables), "sensitive")

\* C14 witness: a recommendation with a separation list for a Load Model of
\* two high producers and a different high-sensitive item
C14_Witness ==
    /\ called = "getTransportRecommendation"
    /\ Len(transportRec.separation) = 2
    /\ \E i, j, k \in 1..Len(vegetables) :
          /\ i < j
          /\ IsHighProducer(vegetables[i]) /\ IsHighProducer(vegetables[j])
          /\ IsHighSensitive(vegetables[k]) /\ ~IsHighProducer(vegetables[k])

----------------------------------------------------------------------------
(* The empty Load Model *)

\* C15: for the empty Load Model calculateImpact's nine numeric fields are 0,
\* getTransportRecommendation gives type ventilated, temperature 10-15 and no
\* separation, and optimizeLoading and analyzeCompatibility give empty lists.
C15_EmptyDefaults ==
    vegetables = <<>> =>
        /\ called = "calculateImpact" =>
              \A part \in DOMAIN impact.result :
                  \A field \in DOMAIN impact.result[part] :
                      /\ Cardinality(DOMAIN impact.result) = 3
                      /\ Cardinality(DOMAIN impact.result[part]) = 3
                      /\ impact.result[part][field].num = 0
        /\ called = "getTransportRecommendation" =>
              /\ transportRec.type = "ventilated"
              /\ transportRec.temperature = [min |-> 10, max |-> 15]
              /\ transportRec.separation = <<>>
        /\ called = "optimizeLoading" => loadZones = <<>>
        /\ called = "analyzeCompatibility" => compatibilityResults = <<>>

\* C15 witness: the transport recommendation of the empty Load Model
C15_Witness ==
    /\ vegetables = <<>>
    /\ called = "getTransportRecommendation"

----------------------------------------------------------------------------
(* The automatic truck quantity *)

StatedTotal(vegs) == SumTo([i \in 1..Len(vegs) |-> vegs[i].quantity], Len(vegs))

StatedCapacity(size) ==
    CASE size = "small" -> 100 [] size = "medium" -> 200 [] size = "large" -> 400

\* the least whole number of trucks of the given capacity that hold the total
StatedCeil(total, capacity) ==
    CHOOSE k \in 0..total : k * capacity >= total /\ \A j \in 0..(k - 1) : j * capacity < total

----------------------------------------------------------------------------
(* The item list editor *)

\* C16: from the empty Load Model, after any sequence of the VegetableInput
\* operations every item of the Load Model has a whole quantity of at least
\* 1: an item reduced to 0 is removed in the same update, and no item of
\* quantity 0 or less is handed to onVegetablesChange.
C16_QuantitiesAtLeastOne ==
    \A i \in 1..Len(vegetables) :
        vegetables[i].quantity \in Nat /\ vegetables[i].quantity >= 1

\* C16 witness: the dialog's Remove has just taken the last unit of an item,
\* which is no longer in the Load Model, while another item stays
C16_Witness ==
    /\ called = "confirmRemove"
    /\ Len(vegetables) = 1
    /\ nextId = 3
    /\ vegetables[1].quantity = MaxQty

\* C17: from the empty Load Model, after any sequence of user actions the
\* Load Model holds at most one item per produce name; addVegetable leaves
\* the Load Model unchanged when the selected name is empty, is not in the
\* catalog, or is already in the Load Model.
C17_OneItemPerName ==
    /\ [](\A i, j \in 1..Len(vegetables) : vegetables[i].name = vegetables[j].name => i = j)
    /\ [][ ( /\ called' = "addVegetable"
             /\ \/ selectedVegetable = ""
                \/ selectedVegetable \notin CatalogNames
                \/ \E i \in 1..Len(vegetables) : vegetables[i].name = selectedVegetable )
           => vegetables' = vegetables ]_vars

\* C17 witness: addVegetable has returned early on the name Cabbage, which the
\* sample shipment in the Load Model already holds
C17_Witness ==
    /\ called = "addVegetable"
    /\ selectedVegetable = "Cabbage"
    /\ Len(vegetables) = Len(SampleShipment)
    /\ \E i \in 1..Len(vegetables) : vegetables[i].name = "Cabbage" /\ vegetables[i].quantity = 60

----------------------------------------------------------------------------
(* Persistence and sharing *)

\* C18: serializing the current Load Model and Planning Parameters as the
\* page does (the JSON object { vegetables, meta } in local storage, and the
\* same object base64-encoded in the share link's 's' parameter) and decoding
\* it with the mount-time loader reproduces an equal Load Model and equal
\* Planning Parameters; a legacy payload that is a bare item array reproduces
\* that Load Model with the default Planning Parameters.
C18_RoundTrip ==
    phase = "loaded" =>
        /\ origin.link # Absent =>
              vegetables = origin.link.vegetables /\ meta = origin.link.meta
        /\ (shareParam = Absent /\ origin.storage # Absent) =>
              vegetables = origin.storage.vegetables /\ meta = origin.storage.meta
        /\ \A L \in SavedLoadModels :
              /\ shareParam = Btoa(JsonText(VegetablesToJson(L))) =>
                    vegetables = L /\ meta = DefaultMeta
              /\ (shareParam = Absent /\ storage = JsonText(VegetablesToJson(L))) =>
                    vegetables = L /\ meta = DefaultMeta

\* C18 witness: the page has loaded a link that was copied from the sample
\* shipment under edited Planning Parameters, while its storage held another
\* scenario
C18_Witness ==
    /\ phase = "loaded"
    /\ origin.link # Absent
    /\ origin.link.meta = EditedMeta
    /\ Len(origin.link.vegetables) = Len(SampleShipment)
    /\ origin.storage # origin.link
    /\ meta = EditedMeta

\* the JSON value in a share parameter or in a stored text, if it holds one
TreeIn(text) ==
    IF text.kind = "base64" /\ text.of.kind = "json" THEN <<text.of.value>>
    ELSE IF text.kind = "json" THEN <<text.value>>
    ELSE <<>>

\* an item array, or an object with a vegetables array
AcceptedShape(tree) ==
    \/ tree.t = "array"
    \/ /\ tree.t = "object"
       /\ "vegetables" \in DOMAIN tree.fields
       /\ tree.fields.vegetables.t = "array"

\* the Load Model and the Planning Parameters an accepted payload stands for
StatedVegetables(tree) ==
    IF tree.t = "array" THEN FromJson(tree) ELSE FromJson(tree.fields.vegetables)

StatedMeta(tree) ==
    IF tree.t = "object" /\ "meta" \in DOMAIN tree.fields /\ tree.fields.meta.t = "object"
    THEN [k \in DOMAIN DefaultMeta |->
             IF k \in DOMAIN tree.fields.meta.fields
             THEN FromJson(tree.fields.meta.fields[k]) ELSE DefaultMeta[k]]
    ELSE DefaultMeta

\* C19: at mount the initial state is chosen by a fixed priority and the
\* choice never fails: a share parameter that decodes to an item array or to
\* an object with a vegetables array is used, whatever local storage holds;
\* an absent, undecodable, unparsable or otherwise shaped share parameter is
\* ignored and the stored item is used under the same two shapes; if that is
\* absent or malformed too, the state stays the empty Load Model with the
\* default Planning Parameters.
C19_MountPriority ==
    /\ phase = "mounting" => ENABLED LoadEffect
    /\ phase = "loaded" =>
          LET shared == IF shareParam.kind = "base64" THEN TreeIn(shareParam) ELSE <<>>
              stored == IF storage.kind = "json" THEN TreeIn(storage) ELSE <<>>
          IN  IF shared # <<>> /\ AcceptedShape(shared[1])
              THEN /\ vegetables = StatedVegetables(shared[1])
                   /\ meta = StatedMeta(shared[1])
              ELSE IF stored # <<>> /\ AcceptedShape(stored[1])
              THEN /\ vegetables = StatedVegetables(stored[1])
                   /\ meta = StatedMeta(stored[1])
              ELSE vegetables = <<>> /\ meta = DefaultMeta

\* C19 witness: the page was opened with a share parameter that decodes to an
\* object without a vegetables array and has taken the sample shipment from a
\* stored bare array
C19_Witness ==
    /\ phase = "loaded"
    /\ shareParam = Btoa(JsonText(JObject([foo |-> JNumber(1)])))
    /\ storage = JsonText(VegetablesToJson(SampleShipment))
    /\ vegetables = SampleShipment
    /\ meta = DefaultMeta

----------------------------------------------------------------------------
(* Reset *)

\* C21: after Reset has run and every effect it triggers has completed, the
\* Load Model is empty, the Planning Parameters are the defaults, and local
\* storage holds no saved scenario under the key 'shelflife:scenario'.
C21_ResetClearsLocalSave ==
    called = "resetScenario" =>
        /\ vegetables = <<>>
        /\ meta = DefaultMeta
        /\ storage = Absent

----------------------------------------------------------------------------
(* Removal by confirmation *)

Ids(vegs) == {vegs[i].id : i \in 1..Len(vegs)}

\* C22: in the quantity controls an item leaves the Load Model only after the
\* user confirms: decrement on an item of quantity <= 1 leaves the Load Model
\* unchanged and opens the dialog for that item, Cancel leaves the Load Model
\* unchanged, and Remove removes that item and no other.
C22_RemovalNeedsConfirmation ==
    [][ /\ called' = "handleDecrement" =>
              \/ /\ vegetables' = vegetables
                 /\ confirmOpen'
                 /\ \E i \in 1..Len(vegetables) :
                       vegetables[i].id = targetVegId' /\ vegetables[i].quantity <= 1
              \/ /\ ~confirmOpen'
                 /\ Ids(vegetables') = Ids(vegetables)
                 /\ \E i \in 1..Len(vegetables) :
                       /\ vegetables[i].quantity >= 2
                       /\ vegetables' = [vegetables EXCEPT ![i].quantity = vegetables[i].quantity - 1]
        /\ called' = "cancelRemove" => vegetables' = vegetables /\ ~confirmOpen'
        /\ called' = "confirmRemove" =>
              /\ vegetables' = SelectSeq(vegetables, LAMBDA v : v.id # targetVegId)
              /\ ~confirmOpen'
        /\ called' \in {"select", "addVegetable", "increment", "setActiveTab"} =>
              Ids(vegetables) \subseteq Ids(vegetables')
      ]_vars

\* C22 witness: Remove has just taken the first of two items out of the Load
\* Model and left the second
C22_Witness ==
    /\ called = "confirmRemove"
    /\ nextId = 3
    /\ Ids(vegetables) = {2}
    /\ targetVegId = 0 /\ ~confirmOpen

----------------------------------------------------------------------------
(* Sharing from the chat *)

\* C23: when the chat command '/share' is handled after the scenario has been
\* edited, the link that is created encodes the Load Model and the Planning
\* Parameters that are current at that moment, not those of an earlier render.
C23_ChatShareIsCurrent ==
    called = "chatShare" => clipboard = Btoa(Stringify(vegetables, meta))

----------------------------------------------------------------------------
(* Mount effects *)

\* C24: when the page loads with a saved scenario in local storage and no
\* share parameter, then once the mount effects and the renders they cause
\* have completed, the Load Model and the Planning Parameters equal the saved
\* scenario and local storage still holds it, for every order and repetition
\* in which the two mount effects can run.
C24_SavedScenarioSurvivesMount ==
    (called = "rerender" /\ shareParam = Absent /\ origin.storage # Absent) =>
        /\ vegetables = origin.storage.vegetables
        /\ meta = origin.storage.meta
        /\ storage = Stringify(origin.storage.vegetables, origin.storage.meta)

----------------------------------------------------------------------------
(* The chat widget *)

\* the timers that will deliver the reply of the placeholder with this id
RepliesFor(id) == { i \in 1..Len(timers) : timers[i].kind = "reply" /\ timers[i].typingId = id }

\* the message after a user message is its placeholder, still waiting for
\* that message's reply, or that reply
OwnReplyFollows(i) ==
    /\ i < Len(messages)
    /\ LET p == messages[i + 1]
           reply == replyText(messages[i].text)
       IN  /\ p.role = "assistant"
           /\ \/ /\ p.typing
                 /\ p.text = <<"...">>
                 /\ Cardinality(RepliesFor(p.id)) = 1
                 /\ \A t \in RepliesFor(p.id) : timers[t].replyText = reply
              \/ /\ ~p.typing
                 /\ p.text = reply
                 /\ RepliesFor(p.id) = {}

MessagesPaired ==
    /\ \A i \in 1..Len(messages) : messages[i].role = "user" => OwnReplyFollows(i)
    /\ \A i \in 1..Len(messages) :
          messages[i].typing => i > 1 /\ messages[i - 1].role = "user"
    /\ \A i, j \in 1..Len(messages) : messages[i].id = messages[j].id => i = j

\* a step keeps every message in its place; only a placeholder changes, once
MessagesKept ==
    /\ Len(messages') >= Len(messages)
    /\ \A i \in 1..Len(messages) :
          /\ messages'[i].id = messages[i].id
          /\ messages'[i].role = messages[i].role
          /\ ~messages[i].typing => messages'[i] = messages[i]

\* C25: for any interleaving of sends and reply timers (250 ms for slash
\* commands, 600 ms for other messages), each sent user message is
\* immediately followed in the message list by its own assistant
\* placeholder, each placeholder is replaced exactly once by the reply
\* computed for that user message and by no other reply, and messages are
\* never reordered, duplicated or dropped; a send with empty or
\* whitespace-only input adds no message.
C25_RepliesStayWithTheirMessages ==
    /\ []MessagesPaired
    /\ [][ /\ MessagesKept
           /\ called' = "send" =>
                 IF Trim(input) = <<>>
                 THEN messages' = messages
                 ELSE /\ Len(messages') = Len(messages) + 2
                      /\ messages'[Len(messages) + 1].role = "user"
                      /\ messages'[Len(messages) + 1].text = Trim(input)
                      /\ messages'[Len(messages) + 2].typing
         ]_vars

\* C25 witness: of two sent messages the second, a command, has its reply
\* while the first still shows its placeholder
C25_Witness ==
    /\ called = "reply"
    /\ Len(messages) = 5
    /\ messages[2].text = <<"Impact", "?">>
    /\ messages[3].typing
    /\ messages[4].text = <<"/layout">>
    /\ messages[5].text = <<"Opening Layout tab">>

\* C26: clicking a text quick-suggestion appends a user message whose text
\* is that suggestion's text and then a reply to it, whatever the input field
\* contained before the click.
C26_SuggestionIsSent ==
    called = "scheduledSend" =>
        /\ Len(messages) >= 2
        /\ messages[Len(messages) - 1].role = "user"
        /\ messages[Len(messages) - 1].text = suggested
        /\ messages[Len(messages)].typing
        /\ \A t \in RepliesFor(messages[Len(messages)].id) :
              timers[t].replyText = replyText(suggested)

\* C27: the unread counter is 0 after the window is opened, increases by one
\* for each reply that arrives while the window is closed at that moment, and
\* does not increase for a reply that arrives while the window is open,
\* whether the window was open or closed when the message was sent.  Hence
\* the counter is 0 while the window is open, and positive when a reply has
\* just arrived at a closed window.
C27_UnreadCountsArrivalsWhileClosed ==
    /\ open => unread = 0
    /\ (called = "reply" /\ ~open) => unread > 0

----------------------------------------------------------------------------
(* The PDF scenario summary *)

\* C28: in the PDF scenario summary the truck count printed in the Truck
\* field equals the truck count used to compute the utilization printed in
\* the same summary, in auto and in manual truck-quantity mode, so that the
\* printed total load divided by (printed truck count times the size's
\* capacity) gives the printed utilization.
C28_PrintedTrucksGiveUtilization ==
    called = "exportScenarioPDF" =>
        LET printedCapacity == pdfSummary.truckQuantity * StatedCapacity(pdfSummary.truckSize)
        IN  /\ printedCapacity = getTotalCapacity(vegetables, meta)
            /\ 2 * 100 * pdfSummary.totalLoad >= (2 * pdfSummary.utilization - 1) * printedCapacity
            /\ 2 * 100 * pdfSummary.totalLoad < (2 * pdfSummary.utilization + 1) * printedCapacity

----------------------------------------------------------------------------
(* The operating envelope as a range *)

\* C29: for every non-empty well-formed Load Model (each item's
\* idealTemp.min <= idealTemp.max, any integer temperatures) the operating
\* envelope returned by getTransportRecommendation is a valid range:
\* temperature.min <= temperature.max.
C29_EnvelopeIsARange ==
    ( /\ called = "getTransportRecommendation"
      /\ Len(vegetables) >= 1
      /\ \A i \in 1..Len(vegetables) : vegetables[i].idealTemp.min <= vegetables[i].idealTemp.max ) =>
        transportRec.temperature.min <= transportRec.temperature.max

----------------------------------------------------------------------------
(* The two pairwise checks *)

\* the badge's status and the verdicts' severities agree
StatusAgrees(status, verdicts) ==
    /\ status = "incompatible" <=> \E k \in 1..Len(verdicts) : verdicts[k].severity = "high"
    /\ status = "compatible" <=>
          \A k \in 1..Len(verdicts) : verdicts[k].severity \in {"low", "medium"}

\* C30: the two implementations of the pairwise check agree: for every Load
\* Model with at least 2 items, the aggregate status from
\* getCompatibilityStatus is 'incompatible' if and only if
\* analyzeCompatibility returns at least one verdict with severity high, and
\* it is 'compatible' if and only if every verdict has severity low or medium.
C30_StatusAgreesWithVerdicts ==
    Len(vegetables) >= 2 =>
        /\ called = "getCompatibilityStatus" =>
              StatusAgrees(compatibilityStatus.status, analyzeCompatibility(vegetables))
        /\ called = "analyzeCompatibility" =>
              StatusAgrees(getCompatibilityStatus(vegetables).status, compatibilityResults)

\* C30 witness: the badge says compatible for a Load Model in which
\* analyzeCompatibility marks a pair incompatible for temperature alone, and
\* says incompatible nowhere without a verdict of severity high
C30_Witness ==
    /\ called = "getCompatibilityStatus"
    /\ Len(vegetables) = 3
    /\ compatibilityStatus.status = "compatible"
    /\ \E k \in 1..3 :
          /\ analyzeCompatibility(vegetables)[k].severity = "medium"
          /\ ~analyzeCompatibility(vegetables)[k].compatible

====
